---- MODULE Spec2Model ----
(***************************************************************************)
(* Verification model of the analysis core of spotify-visualizer:          *)
(*   - the structural event synchronizer  (src/src/hooks/useBeatSync.ts)   *)
(*   - the audio profile classifier       (src/src/three/audioProfile.ts)  *)
(*   - the live analyzer                  (src/src/three/liveAnalyzer.ts)  *)
(*   - the mood palette system            (three/moodPalette.ts)           *)
(* Each component has its own specifications (SyncSpec, ProfileSpec,       *)
(* LiveSpec, MoodSpec, ...); the variables of the other components stay    *)
(* at their initial values.                                                *)
(***************************************************************************)
EXTENDS Integers, Sequences, FiniteSets, TLC

VARIABLES
    \* ---- useBeatSync: props of the last render and the four refs
    analysis,        \* id of the AudioAnalysis object passed in (NoTrack = null)
    position,        \* playback position, integer milliseconds
    isPlaying,
    prevPositionRef, \* position (ms) of the last dispatching call, NoPos = null
    lastBeatRef,     \* index fired last, None = -1
    lastBarRef,
    lastSectionRef,
    pc,              \* "idle" | "reset" | "dispatch": effects pending after a render
    \* ---- useBeatSync: observation of the callbacks (history only)
    fired,           \* callbacks made by the most recent dispatch effect, in order
    lastPath,        \* path of the most recent dispatch effect
    firedSet,        \* per kind: the indices fired in this playthrough
    dup,             \* some index was fired a second time in this playthrough
    mono,            \* the calls since the tables changed: all playing (from the
                     \* first playing one on), positions non-decreasing
    runStart,        \* while mono: position of the first playing call
    ordered,         \* while mono: every callback had a higher index than the last
    replaced,        \* the last render replaced the tables
    oldLastBeat,     \* lastBeatRef as the last reset effect found it
    \* ---- AudioProfileClassifier (audioProfile.ts lines 111-125)
    rolling,         \* RollingStats, fixed point, 1.0 = SC
    weights,         \* ProfileWeights, fixed point, 1.0 = WSC
    params,          \* VisualParams (this.params), numbers with 1.0 = SC
    returned,        \* the VisualParams value handed to the latest caller
    earlier,         \* the value handed to the caller before: as it was
                     \* handed out, and as that caller reads it now
    everReturned,    \* some call has returned
    lastCall,        \* "none" | "update" | "noaudio" | "getParams"
    lastFrame,       \* the frame passed to the latest update call
    nUpdates         \* update calls so far

\* LiveAnalyzer (three/liveAnalyzer.ts)
VARIABLES
    analyser,        \* analyser and dataArray are set
    ctxState,        \* "suspended" | "running" | "closed"
    mode,            \* _mode
    prevDataArray,   \* NullArray or the previous frame's magnitudes
    smSubBass, smBass, smMids, smHighs, smBrilliance,
    smCentroid, smFlux, smRolloff, smZCR,
    onsetRolling, lastOnset, onsetDensitySmooth,
    vocalMidsRolling, vocalBassHighRolling,
    rollingBass, lastBeatTime, beatIntervals,
    bpm,             \* _bpm
    now,             \* wall clock of the render loop, ms
    nTicks,          \* tick calls so far
    out,             \* the frame tick returned last
    reportedAt,      \* history: per band, when a tick last reported an onset
    sameSource,      \* history: that report came from the source attached now
    closest,         \* history: least time between two reports of a band
    closestSameSource, \* the same, both from one attached source
    refused,         \* history: a spike was held back by the onset gap
    zeroRun,         \* history: all-zero frames analysed in a row
    beatAt,          \* history: when a tick last reported a beat
    beatLog,         \* history: the times of the attached source's beats
    closestBeat,     \* history: least time between two reported beats
    closestBeatSameSource, \* the same, both from one attached source
    beatRefused,     \* history: a bass spike was held back by the beat gap
    tempoBefore      \* history: the gap ring and _bpm as the latest beat found them

\* LiveAnalyzer: the asynchronous calls loadPreview and startLiveCapture
VARIABLES
    previewPc,       \* loadPreview: "none" | "fetch" | "decode" (its await)
    capturePc,       \* startLiveCapture: "none" | "resume" | "pick"
    streamSource,    \* streamSource and activeStream are set
    bufferSource,    \* bufferSource is set: a started, looping buffer source
    feeds,           \* the sources connected to this.analyser
    previewAnalyser  \* the analyser loadPreview made: "none" | "current"
                     \* (it is this.analyser) | "detached" (it no longer is)

\* LiveAnalyzer: a source that keeps giving the same frame
VARIABLES
    steady           \* history: frames in a row equal to the frame before

\* MoodPaletteSystem (three/moodPalette.ts)
VARIABLES
    rollEnergy, rollCentroid, rollOnset, rollFlux, rollFluxMAD,
    energyFast, energySlow,
    fastUntil,       \* ms; the detecting call's time + 1500, or NegInfinity
    moodTarget,      \* this.target: four RGB triples, 1.0 = SC
    current,         \* this.current, the same
    pal,             \* the palette the latest modulate call wrote
    wallTime,        \* wallTimeSec of the latest update call, ms
    nMood,           \* update calls so far
    palBefore,       \* history: that palette as modulate found it
    moodAt,          \* history: this.current as modulate found it
    nModulate,       \* history: modulate calls so far
    speedUsed,       \* history: "none" | "fast" | "slow", the latest call's rate
    sectionAt,       \* history: time of the latest detecting call, or NoSection
    detected         \* history: the latest update call returned true

syncVars == <<analysis, position, isPlaying, prevPositionRef, lastBeatRef,
              lastBarRef, lastSectionRef, pc, fired, lastPath, firedSet, dup,
              mono, runStart, ordered, replaced, oldLastBeat>>

profileVars == <<rolling, weights, params, returned, earlier, everReturned, lastCall,
                 lastFrame, nUpdates>>

liveVars == <<analyser, ctxState, mode, prevDataArray, smSubBass, smBass,
              smMids, smHighs, smBrilliance, smCentroid, smFlux, smRolloff,
              smZCR, onsetRolling, lastOnset, onsetDensitySmooth,
              vocalMidsRolling, vocalBassHighRolling, rollingBass,
              lastBeatTime, beatIntervals, bpm, now, nTicks, out, reportedAt,
              sameSource, closest, closestSameSource, refused, zeroRun, beatAt, beatLog,
              closestBeat, closestBeatSameSource, beatRefused, tempoBefore>>

moodVars == <<rollEnergy, rollCentroid, rollOnset, rollFlux, rollFluxMAD,
              energyFast, energySlow, fastUntil, moodTarget, current, pal,
              wallTime, nMood, palBefore, moodAt, nModulate, speedUsed,
              sectionAt, detected>>

flightVars == <<previewPc, capturePc, streamSource, bufferSource, feeds,
                previewAnalyser>>

otherThanSync == <<profileVars, liveVars, moodVars, flightVars, steady>>
otherThanProfile == <<syncVars, liveVars, moodVars, flightVars, steady>>
otherThanLive == <<syncVars, profileVars, moodVars, flightVars, steady>>
otherThanMood == <<syncVars, profileVars, liveVars, flightVars, steady>>
otherThanAnalyzer == <<syncVars, profileVars, moodVars, steady>>

vars == <<syncVars, profileVars, liveVars, moodVars, flightVars, steady>>

(***************************************************************************)
(* Small helpers                                                           *)
(***************************************************************************)
RECURSIVE Pow2(_)
Pow2(n) == IF n = 0 THEN 1 ELSE 2 * Pow2(n - 1)

Min2(a, b) == IF a < b THEN a ELSE b
Max2(a, b) == IF a > b THEN a ELSE b
Abs(a) == IF a < 0 THEN -a ELSE a

RECURSIVE Pow10(_)
Pow10(n) == IF n = 0 THEN 1 ELSE 10 * Pow10(n - 1)

\* n / d rounded to the nearest integer (d > 0)
RDiv(n, d) == (2 * n + d) \div (2 * d)

(***************************************************************************)
(* IEEE-754 double arithmetic of `position / 1000`.                        *)
(* A position of x milliseconds becomes the double nearest to x/1000.      *)
(* All comparisons the hook makes are between such doubles, or between one *)
(* and a difference of two; they are decided exactly from the rounding     *)
(* errors, which are kept in units of 2^-62 / 1000.                        *)
(***************************************************************************)
\* The binade of x/1000 (x >= 1 ms): 2^(j-10) <= x/1000 < 2^(j-9).
Binade(x) == CHOOSE j \in 0..20 : 1000 * Pow2(j) <= 1024 * x
                                  /\ 1024 * x < 1000 * Pow2(j + 1)

\* (x * 2^n) mod m, by repeated doubling
RECURSIVE DoubleMod(_, _, _)
DoubleMod(x, n, m) == IF n = 0 THEN x % m ELSE (2 * DoubleMod(x, n - 1, m)) % m

\* The remainder that rounding x/1000 to 53 bits drops (< 0) or adds (> 0),
\* as a multiple of the unit in the last place / 1000.
RoundStep(x) == LET r == DoubleMod(x, 62 - Binade(x), 1000)
                IN  IF r <= 500 THEN -r ELSE 1000 - r

\* fl(x/1000) - x/1000 in units of 2^-62/1000
RoundErr(x) == IF x = 0 THEN 0 ELSE RoundStep(x) * Pow2(Binade(x))

\* whether the 53-bit significand of fl(x/1000) is odd
MantissaOdd(x) ==
    (DoubleMod(x, 62 - Binade(x), 2000) + RoundStep(x)) % 2000 # 0

\* Half the distance from fl(x/1000) down to the next double below it
HalfUlpBelow(x) ==
    IF 1024 * x = 1000 * Pow2(Binade(x))
    THEN 250 * Pow2(Binade(x))      \* x/1000 is a power of two
    ELSE 500 * Pow2(Binade(x))

\* the same with a first window of half a second
AboveCurMinus500(s, c) == s > c - 500

\* fl(s/1000) > fl( fl(c/1000) - fl(0.2) )  for 0 <= s, 0 <= c
AboveCurMinus200(s, c) ==
    IF s # c - 200 THEN s > c - 200
    ELSE IF s = 0 THEN FALSE
    ELSE LET delta == RoundErr(c) - RoundErr(200) - RoundErr(s)
         IN  \/ delta < -HalfUlpBelow(s)
             \/ delta = -HalfUlpBelow(s) /\ MantissaOdd(s)

(***************************************************************************)
(* Structural tables (AudioAnalysis): start times in ms, ordered.          *)
(***************************************************************************)
NoTrack == 0
NoPos == -1
None == -1

Tracks == <<
    [ beats    |-> << [start |-> 500,  confidence |-> 9],
                      [start |-> 1000, confidence |-> 5],
                      [start |-> 1500, confidence |-> 7] >>,
      bars     |-> << [start |-> 500], [start |-> 1500] >>,
      sections |-> << [start |-> 0], [start |-> 1000] >> ],
    [ beats    |-> << [start |-> 600, confidence |-> 8],
                      [start |-> 900, confidence |-> 6] >>,
      bars     |-> << [start |-> 600] >>,
      sections |-> << [start |-> 100] >> ] >>

TrackIds == 1..Len(Tracks)
Kinds == {"beat", "bar", "section"}

Table(a, kind) == IF kind = "beat" THEN Tracks[a].beats
                  ELSE IF kind = "bar" THEN Tracks[a].bars
                  ELSE Tracks[a].sections

\* Positions the player reports (ms)
Positions == {0, 200, 300, 500, 600, 1000, 1100, 1200, 1800}

TableLens == {Len(Table(a, k)) : a \in TrackIds, k \in Kinds}
Indices == 0 .. ((CHOOSE n \in TableLens : \A m \in TableLens : m <= n) - 1)

(***************************************************************************)
(* useBeatSync                                                             *)
(***************************************************************************)
\* line 18: arr[i].start > prevSec && arr[i].start <= curSec, where prevSec is
\* the double of prev ms, or curSec - 0.2 when the anchor is null (line 48)
InWindowOpenRight(start, prev, cur) ==
    /\ IF prev = NoPos THEN AboveCurMinus200(start, cur) ELSE start > prev
    /\ start < cur

InWindow(start, prev, cur) ==
    /\ IF prev = NoPos THEN AboveCurMinus200(start, cur) ELSE start > prev
    /\ start <= cur

\* eventsInWindow: the 0-based indices of the entries in the window, ascending
RECURSIVE EventsFrom(_, _, _, _)
EventsFrom(arr, i, prev, cur) ==
    IF i > Len(arr) THEN <<>>
    ELSE (IF InWindow(arr[i].start, prev, cur) THEN <<i - 1>> ELSE <<>>)
         \o EventsFrom(arr, i + 1, prev, cur)

eventsInWindow(arr, prev, cur) == EventsFrom(arr, 1, prev, cur)

\* line 52: curSec < prevSec - 0.5 in doubles.  prevSec - 0.5 is exact, so for
\* a step of exactly 500 ms the rounding errors of the two quotients decide.
SeekJumpAnyBackward(cur, prev) == prev # NoPos /\ cur < prev

SeekJump(cur, prev) ==
    /\ prev # NoPos
    /\ \/ cur < prev - 500
       \/ cur = prev - 500 /\ RoundErr(cur) < RoundErr(prev)

\* line 45: if (!analysis || !isPlaying) return
ShouldRunIgnoringPause(a, playing) == a # NoTrack

ShouldRun(a, playing) == a # NoTrack /\ playing

\* lines 38-41: the values the reset effect stores
ClearedKeepingLast ==
    [prev |-> NoPos, beat |-> lastBeatRef, bar |-> lastBarRef,
     section |-> lastSectionRef]

Cleared == [prev |-> NoPos, beat |-> None, bar |-> None, section |-> None]

\* lines 58-63 (65-70, 72-77): fire each index that differs from the last one
RECURSIVE FireLoop(_, _)
FireLoop(idxs, last) ==
    IF idxs = <<>> THEN [calls |-> <<>>, last |-> last]
    ELSE IF Head(idxs) # last
         THEN LET rest == FireLoop(Tail(idxs), Head(idxs))
              IN  [calls |-> <<Head(idxs)>> \o rest.calls, last |-> rest.last]
         ELSE FireLoop(Tail(idxs), last)

Fire(kind, last) ==
    FireLoop(eventsInWindow(Table(analysis, kind), prevPositionRef, position), last)

\* the callbacks as the host sees them
BeatCalls(idxs) ==
    [n \in 1..Len(idxs) |->
        <<"beat", idxs[n], Tracks[analysis].beats[idxs[n] + 1].confidence>>]
PlainCalls(kind, idxs) == [n \in 1..Len(idxs) |-> <<kind, idxs[n]>>]

\* history bookkeeping
RECURSIVE Ascending(_, _)
Ascending(idxs, from) ==
    idxs = <<>> \/ (Head(idxs) > from /\ Ascending(Tail(idxs), Head(idxs)))

NoneFired == [k \in Kinds |-> {}]

SeqSet(q) == {q[n] : n \in 1..Len(q)}

SyncInit ==
    /\ analysis = NoTrack /\ position = 0 /\ isPlaying = FALSE
    /\ prevPositionRef = NoPos
    /\ lastBeatRef = None /\ lastBarRef = None /\ lastSectionRef = None
    /\ pc = "idle"
    /\ fired = <<>> /\ lastPath = "noop"
    /\ firedSet = NoneFired /\ dup = FALSE
    /\ mono = TRUE /\ runStart = NoPos /\ ordered = TRUE
    /\ replaced = FALSE /\ oldLastBeat = None

\* A render with new props; React then runs the effects whose deps changed,
\* in declaration order (cb: only a callback's identity changed).
Render ==
    /\ pc = "idle"
    /\ \E a \in {NoTrack} \cup TrackIds, q \in Positions, b \in BOOLEAN,
          cb \in BOOLEAN :
        /\ cb = (a = analysis /\ q = position /\ b = isPlaying)
        /\ analysis' = a /\ position' = q /\ isPlaying' = b
        /\ replaced' = (a # analysis)
        /\ pc' = IF a # analysis THEN "reset" ELSE "dispatch"
    /\ fired' = <<>>
    /\ UNCHANGED <<prevPositionRef, lastBeatRef, lastBarRef, lastSectionRef,
                   lastPath, firedSet, dup, mono, runStart, ordered,
                   oldLastBeat>>
    /\ UNCHANGED otherThanSync

\* lines 37-42
ResetEffect ==
    /\ pc = "reset"
    /\ oldLastBeat' = lastBeatRef
    /\ prevPositionRef' = Cleared.prev
    /\ lastBeatRef' = Cleared.beat
    /\ lastBarRef' = Cleared.bar
    /\ lastSectionRef' = Cleared.section
    /\ firedSet' = NoneFired /\ dup' = FALSE
    /\ mono' = TRUE /\ runStart' = NoPos /\ ordered' = TRUE
    /\ pc' = "dispatch"
    /\ UNCHANGED <<analysis, position, isPlaying, fired, lastPath, replaced>>
    /\ UNCHANGED otherThanSync

\* lines 44-78
DispatchEffect ==
    /\ pc = "dispatch"
    /\ pc' = "idle"
    /\ UNCHANGED <<analysis, position, isPlaying, replaced, oldLastBeat>>
    /\ UNCHANGED otherThanSync
    /\ IF ~ShouldRun(analysis, isPlaying)
       THEN /\ fired' = <<>> /\ lastPath' = "noop"
            /\ mono' = (mono /\ runStart = NoPos)
            /\ runStart' = NoPos
            /\ ordered' = TRUE
            /\ UNCHANGED <<prevPositionRef, lastBeatRef, lastBarRef,
                           lastSectionRef, firedSet, dup>>
       ELSE IF SeekJump(position, prevPositionRef)
       THEN /\ prevPositionRef' = position
            /\ fired' = <<>> /\ lastPath' = "seek"
            /\ firedSet' = NoneFired /\ dup' = FALSE
            /\ mono' = FALSE /\ runStart' = NoPos /\ ordered' = TRUE
            /\ UNCHANGED <<lastBeatRef, lastBarRef, lastSectionRef>>
       ELSE LET b == Fire("beat", lastBeatRef)
                r == Fire("bar", lastBarRef)
                s == Fire("section", lastSectionRef)
                calls == [beat |-> b.calls, bar |-> r.calls, section |-> s.calls]
                old == [beat |-> lastBeatRef, bar |-> lastBarRef,
                        section |-> lastSectionRef]
                again == \E k \in Kinds : SeqSet(calls[k]) \cap firedSet[k] # {}
                stillMono == mono /\ (prevPositionRef = NoPos
                                      \/ position >= prevPositionRef)
            IN  /\ prevPositionRef' = position
                /\ lastBeatRef' = b.last
                /\ lastBarRef' = r.last
                /\ lastSectionRef' = s.last
                /\ fired' = BeatCalls(b.calls) \o PlainCalls("bar", r.calls)
                                \o PlainCalls("section", s.calls)
                /\ lastPath' = "fire"
                /\ dup' = (dup \/ again)
                /\ firedSet' = IF dup \/ again THEN NoneFired
                               ELSE [k \in Kinds |->
                                       firedSet[k] \cup SeqSet(calls[k])]
                /\ mono' = stillMono
                /\ runStart' = IF ~stillMono THEN NoPos
                               ELSE IF runStart = NoPos THEN position
                               ELSE runStart
                /\ ordered' = IF ~stillMono THEN TRUE
                              ELSE ordered /\ \A k \in Kinds :
                                                Ascending(calls[k], old[k])

(***************************************************************************)
(* AudioProfileClassifier (audioProfile.ts)                                *)
(* Numbers are fixed point: statistics, scores and visual parameters with  *)
(* 1.0 = SC, the profile weights with 1.0 = WSC; every product and         *)
(* quotient is rounded to the nearest unit, as a double rounds to the      *)
(* nearest of its values.  dt is in milliseconds.                          *)
(***************************************************************************)
SC == Pow10(4)
WSC == Pow10(8)

\* a * b for a, b with 1.0 = SC
Mul(a, b) == RDiv(a * b, SC)

\* d * alpha for d with 1.0 = WSC and alpha with 1.0 = SC (split to stay
\* inside 32 bits)
MulW(d, alpha) == (d \div SC) * alpha + RDiv((d % SC) * alpha, SC)

PROFILE_KEYS == <<"heavy", "ambient", "rhythmic", "acoustic", "chaotic">>
ProfileTypes == {"heavy", "ambient", "rhythmic", "acoustic", "chaotic"}
ParamKeys == {"hue1", "hue2", "hue3", "roughness", "displacementScale",
              "bloomStrength", "chromaAmount", "grainAmount",
              "particleVelocity", "particleOpacity", "cameraShake"}

\* lines 52-93
PROFILE_DEFS ==
    [ heavy |->
        [hue1 |-> 200, hue2 |-> 700, hue3 |-> 9700,
         roughness |-> 8500, displacementScale |-> 13500,
         bloomStrength |-> 22000, chromaAmount |-> 70, grainAmount |-> 1300,
         particleVelocity |-> 8000, particleOpacity |-> 8500,
         cameraShake |-> 120],
      ambient |->
        [hue1 |-> 6200, hue2 |-> 7200, hue3 |-> 5500,
         roughness |-> 800, displacementScale |-> 6500,
         bloomStrength |-> 18000, chromaAmount |-> 30, grainAmount |-> 400,
         particleVelocity |-> 1500, particleOpacity |-> 4000,
         cameraShake |-> 0],
      rhythmic |->
        [hue1 |-> 4700, hue2 |-> 8800, hue3 |-> 5000,
         roughness |-> 4000, displacementScale |-> 10500,
         bloomStrength |-> 25000, chromaAmount |-> 80, grainAmount |-> 600,
         particleVelocity |-> 6500, particleOpacity |-> 7500,
         cameraShake |-> 50],
      acoustic |->
        [hue1 |-> 1000, hue2 |-> 2800, hue3 |-> 1400,
         roughness |-> 1800, displacementScale |-> 8000,
         bloomStrength |-> 14000, chromaAmount |-> 40, grainAmount |-> 1000,
         particleVelocity |-> 2500, particleOpacity |-> 5500,
         cameraShake |-> 0],
      chaotic |->
        [hue1 |-> 9500, hue2 |-> 5000, hue3 |-> 2500,
         roughness |-> 10000, displacementScale |-> 15500,
         bloomStrength |-> 30000, chromaAmount |-> 140, grainAmount |-> 1600,
         particleVelocity |-> 12000, particleOpacity |-> 9000,
         cameraShake |-> 200] ]

\* lines 133, 134, 168, 177: min(cap, dt / T), with 1.0 = SC
AlphaFast(dt)  == Min2(1500, RDiv(dt * SC, 1500))
AlphaSlow(dt)  == Min2(400,  RDiv(dt * SC, 5000))
AlphaBlend(dt) == Min2(200,  RDiv(dt * SC, 2500))
AlphaVis(dt)   == Min2(2500, RDiv(dt * SC, 300))

\* line 129
HasAudioAlways(frame) == TRUE

HasAudio(frame) == frame.bass > 0 \/ frame.subBass > 0

\* line 136: (subBass + bass) / max(0.001, mids + highs)
BassRatio(frame) ==
    RDiv((frame.subBass + frame.bass) * SC,
         Max2(SC \div 1000, frame.mids + frame.highs))

\* lines 138-142
Roll(r, frame, dt) ==
    [centroid     |-> r.centroid
                        + Mul(frame.centroid - r.centroid, AlphaSlow(dt)),
     flux         |-> r.flux + Mul(frame.flux - r.flux, AlphaFast(dt)),
     onsetDensity |-> r.onsetDensity
                        + Mul(frame.onsetDensity - r.onsetDensity, AlphaSlow(dt)),
     bassRatio    |-> r.bassRatio
                        + Mul(BassRatio(frame) - r.bassRatio, AlphaSlow(dt)),
     zcr          |-> r.zcr + Mul(frame.zcr - r.zcr, AlphaSlow(dt))]

\* line 147
sat(x) == Max2(0, Min2(SC, x))

\* lines 149-160
RawScores(r) ==
    [heavy    |-> sat(Mul(Mul(r.bassRatio, r.onsetDensity), r.flux) * 6),
     ambient  |-> sat(RDiv(Mul(SC - r.onsetDensity, SC - r.flux) * 95, 100)),
     rhythmic |-> sat(Mul(Mul(r.centroid, r.onsetDensity),
                          Max2(0, SC - RDiv(r.bassRatio, 2))) * 4),
     acoustic |-> sat(Mul(Mul(SC - r.zcr,
                              (6 * SC) \div 10 - Abs(r.centroid - (28 * SC) \div 100))
                            * 4,
                          SC - RDiv(r.onsetDensity * 6, 10))),
     chaotic  |-> sat(Mul(r.zcr, r.flux) * 6)]

RECURSIVE SumOver(_, _)
SumOver(f, keys) ==
    IF keys = <<>> THEN 0 ELSE f[Head(keys)] + SumOver(f, Tail(keys))

\* raw / total with 1.0 = WSC, by long division in two steps
Quot(raw, total) ==
    LET n == raw * SC
    IN  (n \div total) * SC + RDiv((n % total) * SC, total)

\* lines 163-165: total = sum || 1; targetWeights[k] = rawScores[k] / total
NormalizeWithoutDividing(raw) == [k \in ProfileTypes |-> raw[k] * SC]

Normalize(raw) ==
    LET sum == SumOver(raw, PROFILE_KEYS)
        total == IF sum = 0 THEN SC ELSE sum
    IN  [k \in ProfileTypes |-> Quot(raw[k], total)]

\* lines 169-171
Blend(w, target, dt) ==
    [k \in ProfileTypes |-> w[k] + MulW(target[k] - w[k], AlphaBlend(dt))]

\* line 215: sum over the profiles of PROFILE_DEFS[p][key] * w[p]
RECURSIVE BlendHi(_, _, _)
BlendHi(key, w, keys) ==
    IF keys = <<>> THEN 0
    ELSE PROFILE_DEFS[Head(keys)][key] * (w[Head(keys)] \div SC)
         + BlendHi(key, w, Tail(keys))
RECURSIVE BlendLo(_, _, _)
BlendLo(key, w, keys) ==
    IF keys = <<>> THEN 0
    ELSE PROFILE_DEFS[Head(keys)][key] * (w[Head(keys)] % SC)
         + BlendLo(key, w, Tail(keys))
blend(key, w) ==
    RDiv(BlendHi(key, w, PROFILE_KEYS)
         + RDiv(BlendLo(key, w, PROFILE_KEYS), SC), SC)

\* line 218: PROFILE_KEYS.reduce((a, b) => w[a] > w[b] ? a : b)
RECURSIVE Reduce(_, _, _)
Reduce(a, keys, w) ==
    IF keys = <<>> THEN a
    ELSE Reduce(IF w[a] > w[Head(keys)] THEN a ELSE Head(keys), Tail(keys), w)

Dominant(w) == Reduce(Head(PROFILE_KEYS), Tail(PROFILE_KEYS), w)

\* lines 213-234
paramsFromWeights(w) ==
    [num |-> [key \in ParamKeys |-> blend(key, w)], dominant |-> Dominant(w)]

\* lines 177-184
Smooth(p, target, dt) ==
    [num |-> [key \in ParamKeys |->
                p.num[key] + Mul(target.num[key] - p.num[key], AlphaVis(dt))],
     dominant |-> target.dominant]

\* lines 111-121: the state after construction
InitRolling == [centroid |-> 3500, flux |-> 500, onsetDensity |-> 500,
                bassRatio |-> 8000, zcr |-> 1500]
InitWeights == [k \in ProfileTypes |-> IF k = "ambient" THEN WSC ELSE 0]

\* frames the analyzer hands over (fields with 1.0 = SC) and frame times (ms)
Frames == {
    [subBass |-> 0, bass |-> 0, mids |-> 3000, highs |-> 1000,
     centroid |-> 5000, flux |-> 2000, onsetDensity |-> 1000, zcr |-> 2000],
    [subBass |-> 4000, bass |-> 5000, mids |-> 2000, highs |-> 1000,
     centroid |-> 2000, flux |-> 5000, onsetDensity |-> 6000, zcr |-> 1000],
    [subBass |-> 0, bass |-> 1000, mids |-> 3000, highs |-> 6000,
     centroid |-> 9500, flux |-> 10000, onsetDensity |-> 10000, zcr |-> 10000],
    [subBass |-> 0, bass |-> 50, mids |-> 0, highs |-> 0,
     centroid |-> 0, flux |-> 0, onsetDensity |-> 0, zcr |-> 0] }
FrameTimes == {0, 15, 150, 300}

MaxUpdates == 3

Silence == [subBass |-> 0, bass |-> 0, mids |-> 0, highs |-> 0,
            centroid |-> 0, flux |-> 0, onsetDensity |-> 0, zcr |-> 0]

\* no value has been handed out yet
NothingHeld ==
    [some |-> FALSE,
     was |-> paramsFromWeights(InitWeights),
     now |-> paramsFromWeights(InitWeights)]

ProfileInit ==
    /\ rolling = InitRolling
    /\ weights = InitWeights
    /\ params = paramsFromWeights(InitWeights)
    /\ returned = paramsFromWeights(InitWeights)
    /\ earlier = NothingHeld
    /\ everReturned = FALSE
    /\ lastCall = "none"
    /\ lastFrame = Silence
    /\ nUpdates = 0

\* The object the latest call handed out is this.params itself after
\* the early return of line 130, and a fresh copy ({ ...this.params })
\* after lines 186 and 190.
ReturnedIsLive == lastCall = "noaudio"

\* What the holder of the latest handed-out object reads once this.params
\* holds p: the live object shows p, a copy shows what it was given.
HeldAfter(p) ==
    [some |-> everReturned,
     was |-> returned,
     now |-> IF ReturnedIsLive THEN p ELSE returned]

\* lines 128-187
update(frame, dt) ==
    /\ everReturned' = TRUE
    /\ lastFrame' = frame
    /\ IF ~HasAudio(frame)
       THEN /\ returned' = params
            /\ earlier' = HeldAfter(params)
            /\ lastCall' = "noaudio"
            /\ UNCHANGED <<rolling, weights, params>>
       ELSE LET r == Roll(rolling, frame, dt)
                w == Blend(weights, Normalize(RawScores(r)), dt)
                p == Smooth(params, paramsFromWeights(w), dt)
            IN  /\ rolling' = r
                /\ weights' = w
                /\ params' = p
                /\ returned' = p
                /\ earlier' = HeldAfter(p)
                /\ lastCall' = "update"
    /\ UNCHANGED otherThanProfile

\* a frame arrives from the render loop
Update ==
    /\ nUpdates < MaxUpdates
    /\ nUpdates' = nUpdates + 1
    /\ \E frame \in Frames, dt \in FrameTimes : update(frame, dt)

\* line 190
GetParams ==
    /\ returned' = params
    /\ earlier' = HeldAfter(params)
    /\ everReturned' = TRUE
    /\ lastCall' = "getParams"
    /\ UNCHANGED <<rolling, weights, params, lastFrame, nUpdates>>
    /\ UNCHANGED otherThanProfile

ProfileNext == Update \/ GetParams

\* The scenario of spec section 8: the rolled statistics sit at
\* {bassRatio 3.0, onsetDensity 0.6, flux 0.5, centroid 0.2, noisiness 0.1}
\* and every frame has exactly these values, so they stay there.
ScenarioStats == [centroid |-> 2000, flux |-> 5000, onsetDensity |-> 6000,
                  bassRatio |-> 30000, zcr |-> 1000]
ScenarioFrame == [subBass |-> 4000, bass |-> 5000, mids |-> 2000,
                  highs |-> 1000, centroid |-> 2000, flux |-> 5000,
                  onsetDensity |-> 6000, zcr |-> 1000]
ScenarioTimes == {150, 300}

ScenarioUpdate ==
    /\ UNCHANGED nUpdates
    /\ \E dt \in ScenarioTimes : update(ScenarioFrame, dt)

ScenarioNext == ScenarioUpdate \/ GetParams

(***************************************************************************)
(* LiveAnalyzer (three/liveAnalyzer.ts)                                    *)
(* Magnitudes are bytes.  Band averages and the onset, vocal and beat      *)
(* rolling averages are kept in thousandths of a byte; the 0..1 features   *)
(* in units of 1/SC; wall-clock times in milliseconds (-1000 is the        *)
(* code's "-1" seconds).  The analyser is taken with 32 bins of 200 Hz, so *)
(* that each of the five bands owns at least one bin.                      *)
(***************************************************************************)
NoOnset == -1000
ONSET_GAP == 120
BEAT_GAP == 180
TEMPO_WINDOW == 2000

binCount == Pow2(5)
hzPerBin == 6400 \div binCount
Bins == 0..(binCount - 1)

OnsetBands == {"subBass", "bass", "mids", "highs"}
Bands == OnsetBands \cup {"brilliance"}
Modes == {"idle", "preview", "live", "mic"}
NullArray == <<>>

\* lines 229-236
BandOf(i) ==
    LET hz == i * hzPerBin
    IN  IF hz < 60 THEN "subBass"
        ELSE IF hz < 250 THEN "bass"
        ELSE IF hz < 2000 THEN "mids"
        ELSE IF hz < 6000 THEN "highs"
        ELSE "brilliance"

\* what getByteFrequencyData can put in dataArray: one level per band
KickLevels == [subBass |-> 200, bass |-> 200, mids |-> 40, highs |-> 20,
               brilliance |-> 10]

Levels == {
    [subBass |-> 0, bass |-> 0, mids |-> 0, highs |-> 0, brilliance |-> 0],
    KickLevels,
    [subBass |-> 0, bass |-> 10, mids |-> 60, highs |-> 180,
     brilliance |-> 150] }

Spectra == {[i \in Bins |-> l[BandOf(i)]] : l \in Levels}

\* a near-silent frame: no band averages more than 6 of 255
QuietLevels == [subBass |-> 6, bass |-> 6, mids |-> 5, highs |-> 3,
                brilliance |-> 1]
QuietData == [i \in Bins |-> QuietLevels[BandOf(i)]]

TickSteps == {40, 120}
MaxTicks == 3

RECURSIVE BandSumTo(_, _, _)
BandSumTo(d, b, n) ==
    IF n < 0 THEN 0
    ELSE (IF BandOf(n) = b THEN d[n] ELSE 0) + BandSumTo(d, b, n - 1)

BandSum(d, b) == BandSumTo(d, b, binCount - 1)
BandCount(b) == Cardinality({i \in Bins : BandOf(i) = b})

\* accumulated magnitude of bins 0..n
RECURSIVE MagTo(_, _)
MagTo(d, n) == IF n < 0 THEN 0 ELSE d[n] + MagTo(d, n - 1)

RECURSIVE WeightedTo(_, _)
WeightedTo(d, n) == IF n < 0 THEN 0 ELSE n * d[n] + WeightedTo(d, n - 1)

\* half-wave rectified difference from the previous frame
RECURSIVE FluxTo(_, _, _)
FluxTo(d, p, n) ==
    IF n < 0 THEN 0
    ELSE Max2(0, d[n] - (IF p = NullArray THEN 0 ELSE p[n]))
         + FluxTo(d, p, n - 1)

\* lines 250-254
RawBand(sum, count, amp) ==
    IF count = 0 THEN 0 ELSE Min2(SC, RDiv(sum * amp * SC, count * 255))

\* lines 296-299
BandAvg(sum, count) == IF count = 0 THEN 0 ELSE RDiv(sum * 1000, count)

EmaSnap(prev, raw, keep) == raw

\* prev * keep + raw * (1 - keep), keep in units of 1/SC
Ema(prev, raw, keep) == RDiv(prev * keep + raw * (SC - keep), SC)

\* the same with keep in thousandths, for the byte-scaled averages
EmaMilli(prev, raw, keep) == RDiv(prev * keep + raw * (1000 - keep), 1000)

\* line 265
RawCentroid(d) ==
    IF MagTo(d, binCount - 1) > 0
    THEN RDiv(WeightedTo(d, binCount - 1) * SC,
              MagTo(d, binCount - 1) * binCount)
    ELSE 0

\* line 269
RawFlux(d, p) == RDiv(FluxTo(d, p, binCount - 1) * SC, binCount * 255)

\* lines 274-278: the first bin at which the accumulated magnitude reaches
\* 85% of the total (0 when the loop ends without reaching it)
RECURSIVE RolloffBin(_, _, _, _)
RolloffBin(d, i, accumulated, total) ==
    IF i >= binCount THEN 0
    ELSE IF (accumulated + d[i]) * 100 >= total * 85 THEN i
    ELSE RolloffBin(d, i + 1, accumulated + d[i], total)

\* lines 273-279
RawRolloff(d) ==
    RDiv(RolloffBin(d, 0, 0, MagTo(d, binCount - 1)) * SC, binCount)

\* lines 284-286
RawZCR(d) ==
    LET total == MagTo(d, binCount - 1)
        brillSum == BandSum(d, "brilliance")
        brillCount == BandCount("brilliance")
    IN  IF total > 0 /\ brillCount > 0
        THEN Min2(SC, RDiv(brillSum * binCount * 3 * SC, brillCount * total))
        ELSE 0

\* fl( fl(c/1000) - fl(l/1000) ) > fl(g/1000) for wall times c >= l of
\* c and l milliseconds and a gap of g milliseconds
GapExceeds(c, l, g) ==
    IF c - l # g THEN c - l > g
    ELSE LET delta == RoundErr(c) - RoundErr(l) - RoundErr(g)
             half == 500 * Pow2(Binade(g))
         IN  \/ delta > half
             \/ delta = half /\ MantissaOdd(g)

OnsetGapIgnored(wall, last) == TRUE

\* line 308: wallTimeSec - this.lastOnset[band] > ONSET_GAP
OnsetGapOk(wall, last) == GapExceeds(wall, last, ONSET_GAP)

\* line 339 with every gap taken into the ring
AnyGapCounts(c, l) == TRUE

\* line 339: fl( fl(c/1000) - fl(l/1000) ) < 2.0
BelowTwoSeconds(c, l) ==
    IF c - l # TEMPO_WINDOW THEN c - l < TEMPO_WINDOW
    ELSE RoundErr(c) - RoundErr(l) < -(1000 * Pow2(9))

BeatGapIgnored(wall, last) == TRUE

\* line 331
BeatGapOk(wall, last) == last < 0 \/ GapExceeds(wall, last, BEAT_GAP)

\* line 306 with a rolling average that does not follow the signal
OnsetRolledFrozen(prev, raw) == prev

\* line 306
OnsetRolled(prev, raw) == EmaMilli(prev, raw, 967)

\* line 307 without the floor: rolling * ONSET_MULT
OnsetThresholdNoFloor(rolled) == RDiv(rolled * 3, 2)

\* line 307: Math.max(ONSET_MIN, rolling * ONSET_MULT)
OnsetThreshold(rolled) == Max2(6000, RDiv(rolled * 3, 2))

\* line 330
BeatThreshold(rolled) == Max2(6000, RDiv(rolled * 14, 10))

\* line 336 without Math.min(1, ...)
ConfidenceUnclamped(bassAvg, threshold) ==
    RDiv((bassAvg - threshold) * 1000, RDiv(Max2(1000, threshold), 10))

\* line 336
Confidence(bassAvg, threshold) ==
    Min2(SC, RDiv((bassAvg - threshold) * 1000,
                  RDiv(Max2(1000, threshold), 10)))

\* line 340 alone: the ring never drops its oldest gap
PushedUnbounded(intervals, gap) == Append(intervals, gap)

\* lines 340-341
Pushed(intervals, gap) ==
    LET q == Append(intervals, gap)
    IN  IF Len(q) > 8 THEN Tail(q) ELSE q

RECURSIVE SeqSum(_)
SeqSum(q) == IF q = <<>> THEN 0 ELSE Head(q) + SeqSum(Tail(q))

BpmOfTotal(intervals) == RDiv(60000, SeqSum(intervals))

\* lines 343-344: Math.round(60 / avg)
BpmOf(intervals) == RDiv(60000 * Len(intervals), SeqSum(intervals))

\* lines 227-245 and 265-286 for each frame the analyser can deliver, and
\* line 269 for each pair of successive frames
Counts == [b \in Bands |-> BandCount(b)]
Analysed == [d \in Spectra \cup {QuietData} |->
               [sum |-> [b \in Bands |-> BandSum(d, b)],
                centroid |-> RawCentroid(d),
                rolloff |-> RawRolloff(d),
                zcr |-> RawZCR(d)]]
FluxOf == [d \in Spectra \cup {QuietData} |->
             [p \in Spectra \cup {QuietData, NullArray} |-> RawFlux(d, p)]]

NoOnsets == [b \in OnsetBands |-> FALSE]
Far == Pow10(6)

smoothVars == <<smSubBass, smBass, smMids, smHighs, smBrilliance,
                smCentroid, smFlux, smRolloff, smZCR>>
trackerVars == <<onsetRolling, lastOnset, onsetDensitySmooth,
                 vocalMidsRolling, vocalBassHighRolling, rollingBass,
                 lastBeatTime, beatIntervals>>
onsetHistory == <<reportedAt, sameSource, closest, closestSameSource,
                  refused>>

ZeroData == [i \in Bins |-> 0]
KickData == [i \in Bins |-> KickLevels[BandOf(i)]]
BeatSteps == {100, 180, 500}
MaxBeatTicks == 4
KickSteps == {300, 500, 2000}
MaxKicks == 10

beatHistory == <<beatAt, beatLog, closestBeat, closestBeatSameSource,
                 beatRefused, tempoBefore>>
LoudSteps == {40}
MaxLoud == 2
SettleFrames == 80

\* lines 40-78
LiveInit ==
    /\ analyser = FALSE
    /\ ctxState = "suspended"
    /\ mode = "idle"
    /\ prevDataArray = NullArray
    /\ smSubBass = 0 /\ smBass = 0 /\ smMids = 0 /\ smHighs = 0
    /\ smBrilliance = 0
    /\ smCentroid = 5000 /\ smFlux = 0 /\ smRolloff = 3000 /\ smZCR = 0
    /\ onsetRolling = [b \in OnsetBands |-> 0]
    /\ lastOnset = [b \in OnsetBands |-> NoOnset]
    /\ onsetDensitySmooth = 0
    /\ vocalMidsRolling = 0 /\ vocalBassHighRolling = 0
    /\ rollingBass = 20000
    /\ lastBeatTime = NoOnset
    /\ beatIntervals = <<>>
    /\ bpm = 120
    /\ now = 0
    /\ nTicks = 0
    /\ out = [subBass |-> 0, bass |-> 0, mids |-> 0, highs |-> 0,
              brilliance |-> 0, rawMids |-> 0, centroid |-> 5000,
              flux |-> 0, rolloff |-> 3000, zcr |-> 0, onsets |-> NoOnsets,
              onsetDensity |-> 0, beat |-> [fired |-> FALSE, confidence |-> 0],
              bpm |-> 120, vocalDetected |-> FALSE]
    /\ reportedAt = [b \in OnsetBands |-> NoOnset]
    /\ sameSource = [b \in OnsetBands |-> FALSE]
    /\ closest = Far
    /\ closestSameSource = Far
    /\ refused = FALSE
    /\ zeroRun = 0
    /\ beatAt = NoOnset
    /\ beatLog = <<>>
    /\ closestBeat = Far
    /\ closestBeatSameSource = Far
    /\ beatRefused = FALSE
    /\ tempoBefore = [ring |-> <<>>, bpm |-> 120]

\* lines 199-206
zero == [subBass |-> 0, bass |-> 0, mids |-> 0, highs |-> 0,
         brilliance |-> 0, rawMids |-> 0, centroid |-> smCentroid,
         flux |-> 0, rolloff |-> 3000, zcr |-> 0, onsets |-> NoOnsets,
         onsetDensity |-> 0, beat |-> [fired |-> FALSE, confidence |-> 0],
         bpm |-> bpm, vocalDetected |-> FALSE]

\* lines 198-372
tick(data, wall) ==
    IF ~analyser \/ ctxState # "running"
    THEN /\ out' = zero
         /\ UNCHANGED <<analyser, ctxState, mode, prevDataArray, smoothVars,
                        trackerVars, bpm, onsetHistory, zeroRun,
                        beatHistory>>
    ELSE
    \E rawBands \in {[b \in OnsetBands |->
                         BandAvg(Analysed[data].sum[b], Counts[b])]} :
    \E rolled \in {[b \in OnsetBands |->
                       OnsetRolled(onsetRolling[b], rawBands[b])]} :
    \E spike \in {[b \in OnsetBands |->
                      rawBands[b] > OnsetThreshold(rolled[b])]} :
    \E onsets \in {[b \in OnsetBands |->
                       spike[b] /\ OnsetGapOk(wall, lastOnset[b])]} :
    \E rolledBass \in {EmaMilli(rollingBass, rawBands["bass"], 940)} :
    \E beatOk \in {BeatGapOk(wall, lastBeatTime)} :
    \E beatFired \in {rawBands["bass"] > BeatThreshold(rolledBass)
                       /\ beatOk} :
    \E measured \in {beatFired /\ lastBeatTime >= 0
                      /\ BelowTwoSeconds(wall, lastBeatTime)} :
    \E intervals \in {IF measured
                       THEN Pushed(beatIntervals, wall - lastBeatTime)
                       ELSE beatIntervals} :
    \E tempo \in {IF measured /\ Len(intervals) >= 2 THEN BpmOf(intervals)
                   ELSE bpm} :
    LET amp == IF mode = "live" THEN 2 ELSE 4
        rawOf(b) == RawBand(Analysed[data].sum[b], Counts[b], amp)
        anyOnset == \E b \in OnsetBands : onsets[b]
        density == RDiv(onsetDensitySmooth * 992
                        + (IF anyOnset THEN SC ELSE 0) * 8, 1000)
        rawVocalBH == RDiv(rawBands["bass"] + rawBands["highs"], 2)
        vocalMids == EmaMilli(vocalMidsRolling, rawBands["mids"], 967)
        vocalBH == EmaMilli(vocalBassHighRolling, rawVocalBH, 967)
        bassAvg == rawBands["bass"]
        beatThreshold == BeatThreshold(rolledBass)
        gaps == {wall - reportedAt[b] :
                    b \in {x \in OnsetBands :
                              onsets[x] /\ reportedAt[x] # NoOnset}}
        gapsSameSource == {wall - reportedAt[b] :
                    b \in {x \in OnsetBands : onsets[x] /\ sameSource[x]}}
        Least(S, d) == IF \E g \in S : g < d
                       THEN CHOOSE g \in S : \A h \in S : g <= h
                       ELSE d
    IN  /\ smSubBass' = Ema(smSubBass, rawOf("subBass"), 8500)
        /\ smBass' = Ema(smBass, rawOf("bass"), 8500)
        /\ smMids' = Ema(smMids, rawOf("mids"), 8500)
        /\ smHighs' = Ema(smHighs, rawOf("highs"), 8500)
        /\ smBrilliance' = Ema(smBrilliance, rawOf("brilliance"), 8500)
        /\ smCentroid' = Ema(smCentroid, Analysed[data].centroid, 8800)
        /\ smFlux' = Ema(smFlux, FluxOf[data][prevDataArray], 7000)
        /\ smRolloff' = Ema(smRolloff, Analysed[data].rolloff, 9000)
        /\ smZCR' = Ema(smZCR, Analysed[data].zcr, 8800)
        /\ onsetRolling' = rolled
        /\ lastOnset' = [b \in OnsetBands |->
                            IF onsets[b] THEN wall ELSE lastOnset[b]]
        /\ onsetDensitySmooth' = density
        /\ vocalMidsRolling' = vocalMids
        /\ vocalBassHighRolling' = vocalBH
        /\ rollingBass' = rolledBass
        /\ beatIntervals' = intervals
        /\ bpm' = tempo
        /\ lastBeatTime' = IF beatFired THEN wall ELSE lastBeatTime
        /\ prevDataArray' = data
        /\ out' = [subBass |-> smSubBass', bass |-> smBass',
                   mids |-> smMids', highs |-> smHighs',
                   brilliance |-> smBrilliance', rawMids |-> rawOf("mids"),
                   centroid |-> smCentroid', flux |-> smFlux',
                   rolloff |-> smRolloff', zcr |-> smZCR',
                   onsets |-> onsets, onsetDensity |-> density,
                   beat |-> [fired |-> beatFired,
                             confidence |->
                                 IF beatFired
                                 THEN Confidence(bassAvg, beatThreshold)
                                 ELSE 0],
                   bpm |-> tempo,
                   vocalDetected |-> (2 * vocalMids > 3 * vocalBH
                                      /\ vocalMids > 4000)]
        /\ reportedAt' = [b \in OnsetBands |->
                             IF onsets[b] THEN wall ELSE reportedAt[b]]
        /\ sameSource' = [b \in OnsetBands |-> onsets[b] \/ sameSource[b]]
        /\ closest' = Least(gaps, closest)
        /\ closestSameSource' = Least(gapsSameSource, closestSameSource)
        /\ refused' = (refused \/ \E b \in OnsetBands :
                          spike[b] /\ ~OnsetGapOk(wall, lastOnset[b]))
        /\ zeroRun' = IF data = ZeroData THEN Min2(zeroRun + 1, SettleFrames)
                       ELSE 0
        /\ beatAt' = IF beatFired THEN wall ELSE beatAt
        /\ beatLog' = IF beatFired THEN Append(beatLog, wall) ELSE beatLog
        /\ tempoBefore' = IF beatFired
                          THEN [ring |-> beatIntervals, bpm |-> bpm]
                          ELSE tempoBefore
        /\ closestBeat' = IF beatFired /\ beatAt # NoOnset
                          THEN Min2(closestBeat, wall - beatAt)
                          ELSE closestBeat
        /\ closestBeatSameSource' =
              IF beatFired /\ beatLog # <<>>
              THEN Min2(closestBeatSameSource, wall - beatLog[Len(beatLog)])
              ELSE closestBeatSameSource
        /\ beatRefused' = (beatRefused \/ (bassAvg > beatThreshold
                                            /\ ~beatOk))
        /\ UNCHANGED <<analyser, ctxState, mode>>

\* the render loop calls tick with the seconds elapsed since it started
Tick ==
    /\ nTicks < MaxTicks
    /\ nTicks' = nTicks + 1
    /\ \E step \in TickSteps, data \in Spectra :
          /\ now' = now + step
          /\ tick(data, now + step)
    /\ UNCHANGED otherThanLive

\* lines 385-397: everything disposeSource puts back
ResetRolling ==
    /\ prevDataArray' = NullArray
    /\ smSubBass' = 0 /\ smBass' = 0 /\ smMids' = 0 /\ smHighs' = 0
    /\ smBrilliance' = 0
    /\ smCentroid' = 5000 /\ smFlux' = 0 /\ smRolloff' = 3000 /\ smZCR' = 0
    /\ onsetRolling' = [b \in OnsetBands |-> 0]
    /\ lastOnset' = [b \in OnsetBands |-> NoOnset]
    /\ onsetDensitySmooth' = 0
    /\ vocalMidsRolling' = 0 /\ vocalBassHighRolling' = 0
    /\ rollingBass' = 20000
    /\ lastBeatTime' = NoOnset
    /\ beatIntervals' = <<>>
    /\ sameSource' = [b \in OnsetBands |-> FALSE]
    /\ zeroRun' = 0
    /\ beatLog' = <<>>
    /\ UNCHANGED <<beatAt, closestBeat, closestBeatSameSource, beatRefused,
                   tempoBefore>>
    /\ UNCHANGED <<bpm, now, nTicks, out, reportedAt, closest,
                   closestSameSource, refused>>

\* lines 374-399
disposeSource ==
    /\ ResetRolling
    /\ analyser' = FALSE
    /\ mode' = "idle"

\* lines 92-123 and 129-144: startLiveCapture, startMicCapture
StartCapture ==
    /\ ctxState # "closed"
    /\ \E m \in {"live", "mic"} :
          /\ ResetRolling
          /\ ctxState' = "running"
          /\ analyser' = TRUE
          /\ mode' = m
    /\ UNCHANGED otherThanLive

\* lines 150-176
LoadPreview ==
    /\ mode # "live"
    /\ ctxState # "closed"
    /\ ResetRolling
    /\ analyser' = TRUE
    /\ mode' = "preview"
    /\ UNCHANGED ctxState
    /\ UNCHANGED otherThanLive

\* lines 190-193: the captured stream's audio track ends
StreamEnded ==
    /\ mode \in {"live", "mic"}
    /\ disposeSource
    /\ UNCHANGED ctxState
    /\ UNCHANGED otherThanLive

\* lines 84-86
Resume ==
    /\ ctxState = "suspended"
    /\ ctxState' = "running"
    /\ UNCHANGED <<analyser, mode, prevDataArray, smoothVars, trackerVars,
                   bpm, now, nTicks, out, onsetHistory, zeroRun,
                   beatHistory>>
    /\ UNCHANGED otherThanLive

\* lines 401-404
Dispose ==
    /\ ctxState # "closed"
    /\ disposeSource
    /\ ctxState' = "closed"
    /\ UNCHANGED otherThanLive

\* the user starts a capture once
FirstCapture == ~analyser /\ StartCapture

\* a few frames of sound on the attached source
LoudTick ==
    /\ analyser /\ ctxState = "running"
    /\ zeroRun = 0
    /\ nTicks < MaxLoud
    /\ nTicks' = nTicks + 1
    /\ \E step \in LoudSteps, data \in Spectra :
          /\ now' = now + step
          /\ tick(data, now + step)
    /\ UNCHANGED otherThanLive

\* the source falls silent: getByteFrequencyData fills dataArray with zeros
SilentTick ==
    /\ analyser /\ ctxState = "running"
    /\ nTicks > 0
    /\ zeroRun < SettleFrames
    /\ UNCHANGED nTicks
    /\ \E step \in LoudSteps :
          /\ now' = now + step
          /\ tick(ZeroData, now + step)
    /\ UNCHANGED otherThanLive

\* a near-silent frame, right after the source was attached or played
\* loudly, or once a long silence has drained the rolling averages
QuietTick ==
    /\ analyser /\ ctxState = "running"
    /\ zeroRun \in {0, SettleFrames}
    /\ nTicks < MaxLoud
    /\ nTicks' = nTicks + 1
    /\ \E step \in LoudSteps :
          /\ now' = now + step
          /\ tick(QuietData, now + step)
    /\ UNCHANGED otherThanLive

QuietNext == FirstCapture \/ LoudTick \/ SilentTick \/ QuietTick

\* frames of a source that is silent or plays a kick, at beat-sized steps
BeatTick ==
    /\ nTicks < MaxBeatTicks
    /\ nTicks' = nTicks + 1
    /\ \E step \in BeatSteps, data \in {ZeroData, KickData} :
          /\ now' = now + step
          /\ tick(data, now + step)
    /\ UNCHANGED otherThanLive

TempoNext == StartCapture \/ StreamEnded \/ BeatTick

\* a kick on every frame of one attached source
KickTick ==
    /\ analyser /\ ctxState = "running"
    /\ nTicks < MaxKicks
    /\ nTicks' = nTicks + 1
    /\ \E step \in KickSteps :
          /\ now' = now + step
          /\ tick(KickData, now + step)
    /\ UNCHANGED otherThanLive

\* lines 129-144: the microphone is captured once
FirstMicCapture == FirstCapture /\ mode' = "mic"

RingNext == FirstMicCapture \/ KickTick

\* Time between two kicks that are sometimes late, ms
LateSteps == {300, 2000, 2500}

\* tick on a source whose kicks are up to 2.5 s apart
LateTick ==
    /\ analyser /\ ctxState = "running"
    /\ nTicks < MaxKicks
    /\ nTicks' = nTicks + 1
    /\ \E step \in LateSteps :
          /\ now' = now + step
          /\ tick(KickData, now + step)
    /\ UNCHANGED otherThanLive

WindowNext == FirstMicCapture \/ LateTick

\* Time between two frames of a source that kicks at any pace, ms
PaceSteps == {100, 180, 2000}
MaxPace == 6

\* tick on a source whose kicks come too early, just in time, or late
PaceTick ==
    /\ analyser /\ ctxState = "running"
    /\ nTicks < MaxPace
    /\ nTicks' = nTicks + 1
    /\ \E step \in PaceSteps :
          /\ now' = now + step
          /\ tick(KickData, now + step)
    /\ UNCHANGED otherThanLive

PaceNext == FirstMicCapture \/ PaceTick

DecayNext == FirstCapture \/ LoudTick \/ SilentTick

LiveNext == Tick \/ StartCapture \/ LoadPreview \/ StreamEnded \/ Resume
            \/ Dispose

(***************************************************************************)
(* loadPreview and startLiveCapture step by step: each runs up to its next *)
(* await, and the other call, or a frame, may run in between.              *)
(***************************************************************************)
FlightInit ==
    /\ previewPc = "none"
    /\ capturePc = "none"
    /\ streamSource = FALSE
    /\ bufferSource = FALSE
    /\ feeds = {}
    /\ previewAnalyser = "none"

\* lines 374-399 without the analyser: the stream is stopped, the buffer
\* source stopped and disconnected, the rolling state put back
releaseSources ==
    /\ ResetRolling
    /\ mode' = "idle"
    /\ streamSource' = FALSE
    /\ bufferSource' = FALSE
    /\ feeds' = {}

\* this.analyser is given up or replaced: an analyser that loadPreview
\* holds in its local variable is then no longer this.analyser
Detached(a) == IF a = "current" THEN "detached" ELSE a

\* lines 92-94: disposeSource(), then the call waits for ctx.resume()
CaptureBegin ==
    /\ capturePc = "none"
    /\ ctxState # "closed"
    /\ releaseSources
    /\ analyser' = FALSE
    /\ previewAnalyser' = Detached(previewAnalyser)
    /\ capturePc' = "resume"
    /\ UNCHANGED <<ctxState, previewPc>>
    /\ UNCHANGED otherThanAnalyzer

\* lines 94-110: the context runs; the call waits for getDisplayMedia
CaptureResumed ==
    /\ capturePc = "resume"
    /\ ctxState' = "running"
    /\ capturePc' = "pick"
    /\ UNCHANGED <<analyser, mode, prevDataArray, smoothVars, trackerVars,
                   bpm, now, nTicks, out, onsetHistory, zeroRun,
                   beatHistory>>
    /\ UNCHANGED <<previewPc, streamSource, bufferSource, feeds,
                   previewAnalyser>>
    /\ UNCHANGED otherThanAnalyzer

\* lines 110-122 and 178-188: the user shares a tab with audio;
\* connectStream makes a new analyser and connects the stream to it
CapturePicked ==
    /\ capturePc = "pick"
    /\ analyser' = TRUE
    /\ streamSource' = TRUE
    /\ feeds' = {"stream"}
    /\ previewAnalyser' = Detached(previewAnalyser)
    /\ mode' = "live"
    /\ capturePc' = "none"
    /\ UNCHANGED <<ctxState, prevDataArray, smoothVars, trackerVars,
                   bpm, now, nTicks, out, onsetHistory, zeroRun,
                   beatHistory>>
    /\ UNCHANGED <<previewPc, bufferSource>>
    /\ UNCHANGED otherThanAnalyzer

\* lines 110-118: the user cancels the dialog, or shares no audio: throws
CaptureRefused ==
    /\ capturePc = "pick"
    /\ capturePc' = "none"
    /\ UNCHANGED liveVars
    /\ UNCHANGED <<previewPc, streamSource, bufferSource, feeds,
                   previewAnalyser>>
    /\ UNCHANGED otherThanAnalyzer

\* lines 150-165: not in live mode; disposeSource(), a new analyser, then
\* the call waits for fetch
PreviewBegin ==
    /\ previewPc = "none"
    /\ mode # "live"
    /\ ctxState # "closed"
    /\ releaseSources
    /\ analyser' = TRUE
    /\ previewAnalyser' = "current"
    /\ previewPc' = "fetch"
    /\ UNCHANGED <<ctxState, capturePc>>
    /\ UNCHANGED otherThanAnalyzer

\* lines 165-167: the response arrived; the call waits for the decoding
PreviewFetched ==
    /\ previewPc = "fetch"
    /\ previewPc' = "decode"
    /\ UNCHANGED liveVars
    /\ UNCHANGED <<capturePc, streamSource, bufferSource, feeds,
                   previewAnalyser>>
    /\ UNCHANGED otherThanAnalyzer

\* lines 165-167: the fetch or the decoding fails: throws
PreviewFailed ==
    /\ previewPc \in {"fetch", "decode"}
    /\ previewPc' = "none"
    /\ previewAnalyser' = "none"
    /\ UNCHANGED liveVars
    /\ UNCHANGED <<capturePc, streamSource, bufferSource, feeds>>
    /\ UNCHANGED otherThanAnalyzer

\* lines 169-175: the decoded buffer is connected to the analyser the call
\* made, that analyser to the destination, and the source is started
PreviewDecoded ==
    /\ previewPc = "decode"
    /\ bufferSource' = TRUE
    /\ feeds' = IF previewAnalyser = "current" THEN feeds \cup {"buffer"}
                ELSE feeds
    /\ mode' = "preview"
    /\ previewPc' = "none"
    /\ previewAnalyser' = "none"
    /\ UNCHANGED <<analyser, ctxState, prevDataArray, smoothVars, trackerVars,
                   bpm, now, nTicks, out, onsetHistory, zeroRun,
                   beatHistory>>
    /\ UNCHANGED <<capturePc, streamSource>>
    /\ UNCHANGED otherThanAnalyzer

(***************************************************************************)
(* A source whose frames stop changing: from some frame on the analyser    *)
(* returns the magnitudes of the frame before, while the render loop keeps *)
(* calling tick and the clock keeps advancing.                             *)
(***************************************************************************)
HoldSteps == {40}
HoldFrames == 45

\* the analyser is attached, has given a frame, and the run goes on
HoldEnabled ==
    /\ analyser /\ ctxState = "running"
    /\ prevDataArray # NullArray
    /\ steady < HoldFrames

HoldTick ==
    /\ HoldEnabled
    /\ steady' = steady + 1
    /\ UNCHANGED nTicks
    /\ \E step \in HoldSteps :
          /\ now' = now + step
          /\ tick(prevDataArray, now + step)
    /\ UNCHANGED <<syncVars, profileVars, moodVars, flightVars>>

\* the frames before the source settles
VaryingTick == steady = 0 /\ LoudTick
VaryingQuietTick == steady = 0 /\ QuietTick

HoldNext == FirstCapture \/ VaryingTick \/ VaryingQuietTick \/ HoldTick

FlightNext == CaptureBegin \/ CaptureResumed \/ CapturePicked
              \/ CaptureRefused \/ PreviewBegin \/ PreviewFetched
              \/ PreviewFailed \/ PreviewDecoded \/ LoudTick

(***************************************************************************)
(* MoodPaletteSystem (three/moodPalette.ts).                               *)
(* Colours are triples <<r, g, b>> and <<h, s, l>> with 1.0 = SC; wall     *)
(* times are integer milliseconds.                                         *)
(***************************************************************************)
LD == << <<800, 500, 2500>>, <<4000, 600, 1200>>,
         <<1600, 2000, 400>>, <<600, 800, 1800>> >>
LB == << <<6200, 5800, 8800>>, <<5200, 7400, 5600>>,
         <<5400, 6400, 7800>>, <<8400, 8800, 9600>> >>
HD == << <<7200, 2800, 500>>, <<7200, 600, 800>>,
         <<8400, 7200, 400>>, <<2800, 400, 400>> >>
HB == << <<9800, 3200, 2800>>, <<600, 6200, 9400>>,
         <<6800, 9800, 400>>, <<9200, 600, 8800>> >>

Slots == 1..4

Clamp01(x) == Min2(SC, Max2(0, x))

lerp3(a, b, t) == [i \in 1..3 |-> a[i] + Mul(b[i] - a[i], t)]

moodQuad(energy, bright) ==
    [i \in Slots |-> lerp3(lerp3(LD[i], HD[i], energy),
                           lerp3(LB[i], HB[i], energy), bright)]

\* lines 73-80 without Math.min(1, Math.max(0, ...))
satAdjustUnclamped(c, factor) ==
    LET L == RDiv(c[1] * 2990 + c[2] * 5870 + c[3] * 1140, SC)
    IN  [i \in 1..3 |-> L + Mul(c[i] - L, factor)]

satAdjust(c, factor) ==
    LET L == RDiv(c[1] * 2990 + c[2] * 5870 + c[3] * 1140, SC)
    IN  [i \in 1..3 |-> Clamp01(L + Mul(c[i] - L, factor))]

Max3(c) == Max2(c[1], Max2(c[2], c[3]))
Min3(c) == Min2(c[1], Min2(c[2], c[3]))

\* lines 82-93; the hue is divided by 6 once, at the end
rgbToHsl(c) ==
    LET max == Max3(c)
        min == Min3(c)
        l == RDiv(max + min, 2)
        d == max - min
        s == IF max + min > SC THEN RDiv(d * SC, 2 * SC - max - min)
             ELSE RDiv(d * SC, max + min)
        h6 == IF max = c[1]
              THEN (c[2] - c[3]) * SC + (IF c[2] < c[3] THEN 6 * d * SC ELSE 0)
              ELSE IF max = c[2] THEN (c[3] - c[1]) * SC + 2 * d * SC
              ELSE (c[1] - c[2]) * SC + 4 * d * SC
    IN  IF max = min THEN <<0, 0, l>> ELSE <<RDiv(h6, 6 * d), s, l>>

\* lines 95-101, with t6 = 6 * t
h2rgb(p, q, t6) ==
    LET a == IF t6 < 0 THEN t6 + 6 * SC ELSE t6
        t == IF a > 6 * SC THEN a - 6 * SC ELSE a
    IN  IF t < SC THEN p + RDiv((q - p) * t, SC)
        ELSE IF t < 3 * SC THEN q
        ELSE IF t < 4 * SC THEN p + RDiv((q - p) * (4 * SC - t), SC)
        ELSE p

\* lines 103-109; 0.0001 is one unit of SC
hslToRgb(h0, s, l) ==
    LET h == ((h0 % SC) + SC) % SC
        q == IF 2 * l < SC THEN Mul(l, SC + s) ELSE l + s - Mul(l, s)
        p == 2 * l - q
    IN  IF s < 1 THEN <<l, l, l>>
        ELSE <<h2rgb(p, q, 6 * h + 2 * SC), h2rgb(p, q, 6 * h),
               h2rgb(p, q, 6 * h - 2 * SC)>>

\* lines 208-210, the hue difference before it is wrapped
ShortestArcUnwrapped(dH) == dH

\* lines 208-210
ShortestArc(dH) == IF 2 * dH > SC THEN dH - SC
                   ELSE IF 2 * dH < -SC THEN dH + SC
                   ELSE dH

HUE_BLEND == 4000
SAT_BLEND == 7000
LIGHT_BLEND == 3000

\* lines 203-217, one colour
modulateOne(base, mood) ==
    LET b == rgbToHsl(base)
        m == rgbToHsl(mood)
        h == b[1] + Mul(ShortestArc(m[1] - b[1]), HUE_BLEND)
        s == Clamp01(b[2] + Mul(m[2] - b[2], SAT_BLEND))
        l == Clamp01(b[3] + Mul(m[3] - b[3], LIGHT_BLEND))
    IN  hslToRgb(h, s, l)

modulate(p) == [i \in Slots |-> modulateOne(p[i], current[i])]

\* The palettes the scene hands to modulate (smoothPal)
BasePalettes == {
    << <<9000, 1000, 1000>>, <<5000, 5000, 5000>>,
       <<0, 0, 0>>, <<1000, 2000, 9000>> >>,
    << <<SC, SC, SC>>, <<1000, 6000, 6000>>,
       <<9000, 9000, 1000>>, <<2000, 9000, 3000>> >>,
    << <<2000, 3000, 9500>>, <<9000, 3000, 8000>>,
       <<3000, 1000, 6000>>, <<8000, 4000, 1000>> >> }

\* smoothPal before the first frame
InitialPalette == [i \in Slots |-> <<SC \div 2, SC \div 2, SC \div 2>>]

NegInfinity == -Pow10(9)
NoSection == NegInfinity
FAST_WINDOW == 1500
FrameCap == 50

\* The frames the analyzer hands to update
MoodFrames == {
    [subBass |-> 0, bass |-> 0, mids |-> 0, highs |-> 0, brilliance |-> 0,
     centroid |-> 0, flux |-> 0, onsetDensity |-> 0, bpm |-> 120],
    [subBass |-> SC, bass |-> SC, mids |-> SC, highs |-> SC,
     brilliance |-> SC, centroid |-> 6000, flux |-> SC,
     onsetDensity |-> SC, bpm |-> 160] }

\* Time between two frames of the render loop, ms
MoodSteps == {64, 700, 1500}
MaxMood == 4
MaxModulate == 2

\* line 184: wallTimeSec < this.fastUntil, both doubles;
\* fastUntil = fl(fl(d/1000) + 1.5) for the detecting call's time d
BeforeFastUntil(w, until) ==
    IF until = NegInfinity THEN FALSE
    ELSE IF w # until THEN w < until
    ELSE LET delta == RoundErr(until - FAST_WINDOW) - RoundErr(w)
             half == 500 * Pow2(Binade(w))
         IN  \/ delta > half
             \/ delta = half /\ MantissaOdd(w)

\* line 159 left out: the window never opens
FastUntilNeverSet(sectionChange, wall, until) == until

\* line 159
FastUntilAfter(sectionChange, wall, until) ==
    IF sectionChange THEN wall + FAST_WINDOW ELSE until

\* lines 138-140
Energy(f) ==
    Min2(SC, Mul(f.subBass + f.bass + Mul(f.mids, 8000) + Mul(f.highs, 4000)
                 + Mul(f.brilliance, 2000), 5500))

\* lines 161-181: the target palette from the rolling statistics
TargetOf(rE, rC, rO, rF, rMAD, tempo) ==
    LET bpmBoost == Min2(2500, Max2(0, RDiv((tempo - 80) * SC, 120)))
        e == Min2(SC, RDiv(rE * 22, 10) + bpmBoost)
        b == Min2(SC, rC * 3)
        satFactor == 3500 + Mul(Min2(SC, rO * 8), 20500)
        quad == moodQuad(e, b)
        colors == [i \in Slots |-> satAdjust(quad[i], satFactor)]
        fluxNorm == Min2(SC, RDiv(rMAD * SC, Max2(100, rF)))
        comp == [i \in 1..3 |-> SC - colors[1][i]]
    IN  IF fluxNorm > 3500
        THEN [colors EXCEPT ![4] =
                 lerp3(colors[4], comp, RDiv((fluxNorm - 3500) * 8, 65) * 10)]
        ELSE colors

MoodInit ==
    /\ rollEnergy = 3000
    /\ rollCentroid = 3000
    /\ rollOnset = 500
    /\ rollFlux = 300
    /\ rollFluxMAD = 0
    /\ energyFast = 3000
    /\ energySlow = 3000
    /\ fastUntil = NegInfinity
    /\ moodTarget = moodQuad(SC \div 2, SC \div 2)
    /\ current = moodQuad(SC \div 2, SC \div 2)
    /\ pal = InitialPalette
    /\ palBefore = pal
    /\ moodAt = moodQuad(SC \div 2, SC \div 2)
    /\ wallTime = 0
    /\ nMood = 0
    /\ nModulate = 0
    /\ speedUsed = "none"
    /\ sectionAt = NoSection
    /\ detected = FALSE

\* lines 134-191; dt and wall in ms
update_mood(frame, dt, wall) ==
    \E energy \in {Energy(frame)} :
    \E a5 \in {Min2(5000, 2 * dt)} :
    \E a3 \in {Min2(5000, RDiv(10 * dt, 3))} :
    \E rE \in {rollEnergy + Mul(energy - rollEnergy, a5)} :
    \E rC \in {rollCentroid + Mul(frame.centroid - rollCentroid, a5)} :
    \E rO \in {rollOnset + Mul(frame.onsetDensity - rollOnset, a5)} :
    \E rF \in {rollFlux + Mul(frame.flux - rollFlux, a5)} :
    \E rMAD \in {rollFluxMAD + Mul(Abs(frame.flux - rF) - rollFluxMAD, a3)} :
    \E fast \in {energyFast
                 + Mul(energy - energyFast, Min2(SC, RDiv(100 * dt, 3)))} :
    \E slow \in {energySlow + Mul(energy - energySlow, Min2(SC, 4 * dt))} :
    \E sectionChange \in {10 * Abs(fast - slow) > 4 * Max2(500, slow)} :
    \E until \in {FastUntilAfter(sectionChange, wall, fastUntil)} :
    \E colors \in {TargetOf(rE, rC, rO, rF, rMAD, frame.bpm)} :
    \E quick \in {BeforeFastUntil(wall, until)} :
    \E aBlend \in {Min2(SC, IF quick THEN RDiv(dt * 20, 3)
                            ELSE RDiv(dt * 5, 4))} :
        /\ rollEnergy' = rE
        /\ rollCentroid' = rC
        /\ rollOnset' = rO
        /\ rollFlux' = rF
        /\ rollFluxMAD' = rMAD
        /\ energyFast' = fast
        /\ energySlow' = slow
        /\ fastUntil' = until
        /\ moodTarget' = colors
        /\ current' = [i \in Slots |-> lerp3(current[i], colors[i], aBlend)]
        /\ wallTime' = wall
        /\ nMood' = nMood + 1
        /\ speedUsed' = IF quick THEN "fast" ELSE "slow"
        /\ sectionAt' = IF sectionChange THEN wall ELSE sectionAt
        /\ detected' = sectionChange
        /\ UNCHANGED <<pal, palBefore, moodAt, nModulate>>

\* ThreeScene.animLoop (liveAnalyzer.ts lines 730-733, 805)
MoodUpdate ==
    /\ nMood < MaxMood
    /\ \E frame \in MoodFrames, step \in MoodSteps :
           update_mood(frame, Min2(step, FrameCap), wallTime + step)
    /\ UNCHANGED otherThanMood

\* ThreeScene.animLoop (liveAnalyzer.ts line 806)
Modulate ==
    /\ nModulate < MaxModulate
    /\ \E base \in BasePalettes :
           /\ palBefore' = base
           /\ pal' = modulate(base)
    /\ moodAt' = current
    /\ nModulate' = nModulate + 1
    /\ UNCHANGED <<rollEnergy, rollCentroid, rollOnset, rollFlux, rollFluxMAD,
                   energyFast, energySlow, fastUntil, moodTarget,
                   current, wallTime, nMood, speedUsed, sectionAt, detected>>
    /\ UNCHANGED otherThanMood

MoodNext == MoodUpdate \/ Modulate

\* Frames with fields anywhere in [0, 1], and frame times from 0 upward, ms
AnyFrames == MoodFrames \cup {
    [subBass |-> 0, bass |-> 2000, mids |-> SC, highs |-> SC,
     brilliance |-> SC, centroid |-> SC, flux |-> 0,
     onsetDensity |-> 3000, bpm |-> 333] }
AnyDts == {0, 50, 1500, 9000}
MaxAnyDt == 3

\* lines 132-191 called with any frame time
UpdateAnyDt ==
    /\ nMood < MaxAnyDt
    /\ \E frame \in AnyFrames, dt \in AnyDts :
           update_mood(frame, dt, wallTime + dt)
    /\ UNCHANGED otherThanMood

AnyDtNext == UpdateAnyDt

(***************************************************************************)
(* Specifications                                                          *)
(***************************************************************************)
ScenarioInit ==
    /\ SyncInit
    /\ LiveInit
    /\ MoodInit
    /\ FlightInit
    /\ steady = 0
    /\ rolling = ScenarioStats
    /\ weights = InitWeights
    /\ params = paramsFromWeights(InitWeights)
    /\ returned = paramsFromWeights(InitWeights)
    /\ earlier = NothingHeld
    /\ everReturned = FALSE
    /\ lastCall = "none"
    /\ lastFrame = Silence
    /\ nUpdates = 0

Init ==
    /\ SyncInit /\ ProfileInit /\ LiveInit /\ MoodInit /\ FlightInit
    /\ steady = 0

SyncNext == Render \/ ResetEffect \/ DispatchEffect

Next == SyncNext \/ ProfileNext \/ LiveNext \/ MoodNext \/ FlightNext

Spec == Init /\ [][Next]_vars

SyncSpec == Init /\ [][SyncNext]_vars

ProfileSpec == Init /\ [][ProfileNext]_vars

ScenarioSpec == ScenarioInit /\ [][ScenarioNext]_vars

LiveSpec == Init /\ [][LiveNext]_vars

DecaySpec == Init /\ [][DecayNext]_vars

TempoSpec == Init /\ [][TempoNext]_vars

RingSpec == Init /\ [][RingNext]_vars

WindowSpec == Init /\ [][WindowNext]_vars

QuietSpec == Init /\ [][QuietNext]_vars

MoodSpec == Init /\ [][MoodNext]_vars

PaceSpec == Init /\ [][PaceNext]_vars

FlightSpec == Init /\ [][FlightNext]_vars

AnyDtSpec == Init /\ [][AnyDtNext]_vars

\* The render loop (requestAnimationFrame) calls tick on every frame: weak
\* fairness of HoldTick, written out.  HoldTick is enabled exactly when
\* HoldEnabled holds, and it is the only step that raises steady.
HoldFair == []<>(~HoldEnabled) \/ []<><<steady' = steady + 1>>_vars

HoldSpec == Init /\ [][HoldNext]_vars /\ HoldFair

(***************************************************************************)
(* Claims about the synchronizer (checked under SyncSpec)                  *)
(***************************************************************************)
Starts(k) == IF analysis = NoTrack THEN {}
             ELSE {<<n - 1, Table(analysis, k)[n].start>> :
                      n \in 1..Len(Table(analysis, k))}

\* the indices of kind k passed to a callback by the latest dispatch
FiredIdx(k) == {fired[n][2] : n \in {m \in 1..Len(fired) : fired[m][1] = k}}

\* C1: while every call since the tables were set is playing and the
\* positions p0 <= ... <= pn do not decrease, every beat, bar and section that
\* starts in (p0, pn] has been passed to its callback exactly once, nothing
\* that starts after pn has been fired, and the callbacks of each table came
\* in ascending index order.
C1_ExactlyOnceInOrder ==
    (pc = "idle" /\ mono /\ runStart # NoPos) =>
        /\ ~dup
        /\ ordered
        /\ \A k \in Kinds : \A e \in Starts(k) :
              /\ (e[2] > runStart /\ e[2] <= prevPositionRef)
                    => e[1] \in firedSet[k]
              /\ e[1] \in firedSet[k] => e[2] <= prevPositionRef

C1_Witness ==
    /\ pc = "idle" /\ mono /\ analysis = 1
    /\ runStart = 0 /\ prevPositionRef = 1800
    /\ firedSet["beat"] = {0, 1, 2}
    /\ ~dup /\ ordered

\* C2 (as claimed): within one playthrough no index is passed to its callback
\* a second time, whatever the positions and playing flags.
C2_AtMostOncePerPlaythrough == ~dup

\* C3 (as claimed): a playing call with cur < prev - 0.5 s fires nothing and
\* moves the anchor to cur; a backward step of 0.5 s or less is not a seek.
C3_SeekIffMoreThanHalfSecond ==
    [][(pc = "dispatch" /\ analysis # NoTrack /\ isPlaying
        /\ prevPositionRef # NoPos) =>
          /\ position < prevPositionRef - 500 =>
                (lastPath' = "seek" /\ fired' = <<>>
                 /\ prevPositionRef' = position)
          /\ position >= prevPositionRef - 500 => lastPath' = "fire"]_vars

\* C3 (amended): a playing call with cur < prev - 0.5 s fires nothing and
\* moves the anchor to cur; a backward step of less than 0.5 s is not a seek.
\* (A step of exactly 0.5 s is a seek or not as position/1000 rounds.)
C3_SeekSuppressesFiring ==
    [][(pc = "dispatch" /\ analysis # NoTrack /\ isPlaying
        /\ prevPositionRef # NoPos) =>
          /\ position < prevPositionRef - 500 =>
                (lastPath' = "seek" /\ fired' = <<>>
                 /\ prevPositionRef' = position)
          /\ position > prevPositionRef - 500 => lastPath' = "fire"]_vars

C3_Witness ==
    /\ pc = "idle" /\ lastPath = "seek" /\ fired = <<>>
    /\ prevPositionRef = position /\ lastBeatRef # None

\* C4 (as claimed): after a seek the three last-fired indices are none.
C4_SeekResetsCursor ==
    (pc = "idle" /\ lastPath = "seek") =>
        (lastBeatRef = None /\ lastBarRef = None /\ lastSectionRef = None)

\* C5: when the tables are replaced, the anchor and the three last-fired
\* indices are cleared before the dispatch runs, so the first dispatch for the
\* new tables fires exactly the events that start within the 200 ms up to
\* the current position, whatever was fired last for the old tables.
C5_ReplacementResets ==
    /\ (pc = "dispatch" /\ replaced) =>
          /\ prevPositionRef = NoPos
          /\ lastBeatRef = None /\ lastBarRef = None /\ lastSectionRef = None
    /\ (pc = "idle" /\ replaced /\ analysis # NoTrack /\ isPlaying) =>
          /\ lastPath = "fire"
          /\ \A k \in Kinds : \A e \in Starts(k) :
                /\ (e[2] > position - 200 /\ e[2] <= position)
                      => e[1] \in FiredIdx(k)
                /\ (e[2] < position - 200 \/ e[2] > position)
                      => e[1] \notin FiredIdx(k)

C5_Witness ==
    /\ pc = "idle" /\ replaced /\ lastPath = "fire"
    /\ oldLastBeat # None /\ oldLastBeat \in FiredIdx("beat")

\* C6: a call that is not playing, or has no tables, fires nothing and leaves
\* the anchor and the three last-fired indices as they were.
C6_NoopWhenPausedOrNoTables ==
    [][(pc = "dispatch" /\ (analysis = NoTrack \/ ~isPlaying)) =>
          /\ fired' = <<>>
          /\ UNCHANGED <<prevPositionRef, lastBeatRef, lastBarRef,
                         lastSectionRef>>]_vars

C6_Witness ==
    /\ pc = "idle" /\ lastPath = "noop" /\ ~isPlaying /\ analysis # NoTrack
    /\ prevPositionRef # NoPos /\ prevPositionRef # position
    /\ lastBeatRef # None

(***************************************************************************)
(* Claims about the classifier                                             *)
(***************************************************************************)
\* C7 (ProfileSpec): after any sequence of update calls the five weights are
\* non-negative and sum to 1.0 within 1e-6.
C7_WeightsNormalized ==
    /\ \A k \in ProfileTypes : weights[k] >= 0
    /\ Abs(SumOver(weights, PROFILE_KEYS) - WSC) <= WSC \div Pow10(6)

C7_Witness ==
    /\ lastCall = "update" /\ nUpdates >= 2
    /\ weights["heavy"] > 0 /\ weights["chaotic"] > 0
    /\ weights["ambient"] < WSC
    /\ SumOver(RawScores(rolling), PROFILE_KEYS) > SC

\* the weights no longer move under further updates
Converged ==
    weights = Blend(weights, Normalize(RawScores(rolling)), 300)

\* C8 (as claimed, ScenarioSpec): for the scenario statistics no archetype
\* scores higher than heavy, and once the weights have converged the
\* dominant archetype is heavy.
C8_ScenarioIsHeavy ==
    rolling = ScenarioStats =>
        /\ \A k \in ProfileTypes :
              RawScores(rolling)["heavy"] >= RawScores(rolling)[k]
        /\ (lastCall = "update" /\ Converged) => params.dominant = "heavy"

\* C9 (ProfileSpec): update with a frame whose bass and sub-bass are both
\* zero changes neither the rolled statistics, the weights nor the smoothed
\* parameters (with the dominant archetype), and hands back the parameters
\* as they were handed out before.
C9_NoAudioIsNoop ==
    [][(nUpdates' = nUpdates + 1
        /\ lastFrame'.bass = 0 /\ lastFrame'.subBass = 0) =>
          /\ UNCHANGED <<rolling, weights, params>>
          /\ returned' = params
          /\ everReturned => returned' = returned]_vars

C9_Witness ==
    /\ lastCall = "noaudio" /\ nUpdates >= 2
    /\ weights # InitWeights /\ rolling # InitRolling
    /\ returned = params

(***************************************************************************)
(* Claims about the analyzer (checked under LiveSpec)                      *)
(***************************************************************************)
\* C10 (as claimed): any two ticks that report an onset for the same band
\* are more than 120 ms apart.
C10_OnsetsMoreThanGapApart == closest > ONSET_GAP

\* C10 (amended): any two ticks that report an onset for the same band from
\* one attached source are at least 120 ms apart, so two spikes of a band
\* less than 120 ms apart give at most one onset.
C10_OnsetsAtLeastGapApartPerSource == closestSameSource >= ONSET_GAP

C10_Witness ==
    /\ refused
    /\ closestSameSource < Far
    /\ \E b \in OnsetBands : sameSource[b] /\ out.onsets[b]

\* what tick holds smoothed, in units of 1/SC
Smoothed == [subBass |-> smSubBass, bass |-> smBass, mids |-> smMids,
             highs |-> smHighs, brilliance |-> smBrilliance,
             centroid |-> smCentroid, flux |-> smFlux,
             rolloff |-> smRolloff, zcr |-> smZCR]

Scalars == DOMAIN Smoothed
Near(x, floor) == Abs(x - floor) <= SC \div Pow10(3)

\* C11 (DecaySpec): SettleFrames all-zero frames in a row bring the five
\* bands, the centroid and the noisiness to 0 and the rolloff to 0.3 (each
\* within 0.001), and no smoothed scalar ever leaves [0, 1].
C11_ZeroFramesReachFloors ==
    /\ \A k \in Scalars : Smoothed[k] >= 0 /\ Smoothed[k] <= SC
    /\ zeroRun = SettleFrames =>
          /\ \A k \in Bands \cup {"centroid", "zcr"} : Near(Smoothed[k], 0)
          /\ Near(smRolloff, 3000)

\* C12 (TempoSpec): whenever no source is attached, every piece of rolling
\* state of the extractor and the tracker, the running BPM estimate
\* included, has its initial value.
C12_DetachResetsAll ==
    ~analyser =>
        /\ prevDataArray = NullArray
        /\ Smoothed = [k \in Scalars |->
                          IF k = "centroid" THEN 5000
                          ELSE IF k = "rolloff" THEN 3000 ELSE 0]
        /\ onsetRolling = [b \in OnsetBands |-> 0]
        /\ lastOnset = [b \in OnsetBands |-> NoOnset]
        /\ onsetDensitySmooth = 0
        /\ vocalMidsRolling = 0 /\ vocalBassHighRolling = 0
        /\ rollingBass = 20000
        /\ lastBeatTime = NoOnset
        /\ beatIntervals = <<>>
        /\ bpm = 120

\* the gaps between the successive beats of the attached source, ms
BeatGaps == [i \in 1..(Len(beatLog) - 1) |-> beatLog[i + 1] - beatLog[i]]

\* the latest n of these gaps are all half a second
RegularRun(n) ==
    /\ Len(BeatGaps) >= n
    /\ \A i \in (Len(BeatGaps) - n + 1)..Len(BeatGaps) : BeatGaps[i] = 500

\* C13 (as claimed): once three beats in a row are half a second apart, and
\* for as long as that goes on, the BPM estimate is within 120 +- 1.
C13_ThreeRegularBeatsGive120 ==
    RegularRun(2) => (bpm >= 119 /\ bpm <= 121 /\ out.bpm = bpm)

\* C13 (amended): the same when the gap ring holds no gap from before the
\* regular beats: every beat of the attached source so far was half a
\* second after the one before (at least three beats), or eight regular
\* gaps have pushed the older ones out.
C13_RegularBeatsGive120 ==
    (RegularRun(8) \/ (Len(BeatGaps) >= 2 /\ RegularRun(Len(BeatGaps)))) =>
        (bpm >= 119 /\ bpm <= 121 /\ out.bpm = bpm)

C13_Witness ==
    /\ RegularRun(8)
    /\ BeatGaps[1] # 500
    /\ out.beat.fired /\ out.bpm = 120

\* the retention of each smoothed scalar, in units of 1/SC
Retention == [subBass |-> 8500, bass |-> 8500, mids |-> 8500,
              highs |-> 8500, brilliance |-> 8500, centroid |-> 8800,
              zcr |-> 8800, flux |-> 7000, rolloff |-> 9000]

\* the raw samples of frame d, analysed after frame p in mode m
RawSample(d, p, m) ==
    [k \in Scalars |->
        IF k \in Bands
        THEN RawBand(Analysed[d].sum[k], Counts[k],
                     IF m = "live" THEN 2 ELSE 4)
        ELSE IF k = "flux" THEN FluxOf[d][p]
        ELSE Analysed[d][k]]

\* a step in which tick analyses a frame
Analyses == nTicks' = nTicks + 1 /\ analyser /\ ctxState = "running"

\* C14 (LiveSpec): in a tick that analyses a frame, every smoothed scalar
\* moves toward its raw sample, by no more than (1 - retention) times its
\* distance to the sample (to the rounding of the last digit kept), and
\* never past the sample.
C14_SmoothedStepBounded ==
    [][Analyses =>
        LET raw == RawSample(prevDataArray', prevDataArray, mode)
        IN  \A k \in Scalars :
              /\ Abs(Smoothed[k]' - Smoothed[k]) * SC
                    <= (SC - Retention[k]) * Abs(raw[k] - Smoothed[k])
                       + SC \div 2
              /\ raw[k] >= Smoothed[k]
                    => (Smoothed[k] <= Smoothed[k]' /\ Smoothed[k]' <= raw[k])
              /\ raw[k] <= Smoothed[k]
                    => (raw[k] <= Smoothed[k]' /\ Smoothed[k]' <= Smoothed[k])
    ]_vars

C14_Witness ==
    /\ nTicks >= 2 /\ analyser
    /\ prevDataArray = ZeroData
    /\ smBass > 1000 /\ smBass < SC
    /\ smFlux > 0

(***************************************************************************)
(* MoodPaletteSystem.modulate                                              *)
(***************************************************************************)
\* the shorter way round the hue circle between two hues
HueArc(a, b) == Min2(Abs(a - b), SC - Abs(a - b))

\* what the conversions of a colour to RGB and back may round away
ColourTol == SC \div Pow10(3)

MovedWithin(i) ==
    LET b == rgbToHsl(palBefore[i])
        m == rgbToHsl(moodAt[i])
        a == rgbToHsl(pal[i])
    IN  /\ SC * HueArc(a[1], b[1])
              <= HUE_BLEND * HueArc(m[1], b[1]) + SC * ColourTol
        /\ SC * Abs(a[2] - b[2])
              <= SAT_BLEND * Abs(m[2] - b[2]) + SC * ColourTol
        /\ SC * Abs(a[3] - b[3])
              <= LIGHT_BLEND * Abs(m[3] - b[3]) + SC * ColourTol

\* C15: modulate moves each of the four base colours, measured in
\* hue-saturation-lightness, by at most 40% of the shortest hue arc to the
\* mood colour's hue, at most 70% of the saturation difference and at most
\* 30% of the lightness difference.
C15_ModulateWithinCeilings == nModulate > 0 => \A i \in Slots : MovedWithin(i)

\* a modulate call whose mood hue lies more than half the circle away from
\* the base hue in one slot, and which moved that colour
C15_Witness ==
    /\ nModulate > 0
    /\ nMood > 0
    /\ \E i \in Slots :
           /\ 2 * Abs(rgbToHsl(moodAt[i])[1] - rgbToHsl(palBefore[i])[1]) > SC
           /\ rgbToHsl(pal[i])[1] # rgbToHsl(palBefore[i])[1]
           /\ rgbToHsl(pal[i])[2] # rgbToHsl(palBefore[i])[2]
           /\ rgbToHsl(pal[i])[3] # rgbToHsl(palBefore[i])[3]

(***************************************************************************)
(* MoodPaletteSystem.update: the fast-blend window                         *)
(***************************************************************************)
\* time from the latest detecting call to the latest call, ms
SinceSection == wallTime - sectionAt

\* C16 (as stated): a call lerps at the fast rate exactly when it comes
\* less than 1.5 s after the latest call that detected a section change,
\* that call included, and at the slow rate otherwise.
C16_FastExactlyWithinWindow ==
    nMood > 0 =>
        (speedUsed = "fast"
             <=> (sectionAt # NoSection /\ SinceSection < FAST_WINDOW))

\* C16 (amended): a call less than 1.5 s after the latest detecting call,
\* that call included, lerps at the fast rate; a call more than 1.5 s after
\* it, or with no detection so far, lerps at the slow rate.  (At exactly
\* 1.5 s the rounding of the two doubles decides.)
C16_FastWithinWindowSlowBeyond ==
    nMood > 0 =>
        /\ speedUsed \in {"fast", "slow"}
        /\ detected => speedUsed = "fast" /\ sectionAt = wallTime
        /\ (sectionAt # NoSection /\ SinceSection < FAST_WINDOW)
               => speedUsed = "fast"
        /\ (sectionAt = NoSection \/ SinceSection > FAST_WINDOW)
               => speedUsed = "slow"

\* the window has run out: a call more than 1.5 s after the detection
C16_Witness ==
    /\ sectionAt # NoSection
    /\ SinceSection > FAST_WINDOW
    /\ speedUsed = "slow"
    /\ fastUntil = sectionAt + FAST_WINDOW

\* a call inside the window that did not itself detect a change
C16_WithinWindow ==
    /\ sectionAt # NoSection
    /\ ~detected
    /\ SinceSection < FAST_WINDOW
    /\ speedUsed = "fast"

(***************************************************************************)
(* LiveAnalyzer.tick: the tempo gap ring                                   *)
(***************************************************************************)
\* the gaps between the source's beats that are shorter than 2.0 s
ShortGaps ==
    {i \in 1..(Len(beatLog) - 1) : beatLog[i + 1] - beatLog[i] < TEMPO_WINDOW}

\* the gaps whose difference of doubles is below 2.0: the shorter ones, and
\* a gap of exactly 2.0 s when the subtraction rounds down
WallTimes == {100 * k : k \in 0..(25 * MaxKicks)}
RoundsBelowWindow ==
    {l \in WallTimes : BelowTwoSeconds(l + TEMPO_WINDOW, l)}

GapsBelowWindow ==
    {i \in 1..(Len(beatLog) - 1) :
        \/ beatLog[i + 1] - beatLog[i] < TEMPO_WINDOW
        \/ /\ beatLog[i + 1] - beatLog[i] = TEMPO_WINDOW
           /\ beatLog[i] \in RoundsBelowWindow}

\* the k-th of a set of gap indices, in time order
Nth(K, k) == CHOOSE i \in K : Cardinality({j \in K : j < i}) = k - 1

\* the most recent 8 of the gaps K, oldest first
RecentOf(K) ==
    LET n == Cardinality(K)
        m == Min2(8, n)
    IN  [k \in 1..m |-> LET i == Nth(K, n - m + k)
                         IN  beatLog[i + 1] - beatLog[i]]

\* the estimate is 60 / mean(ring), rounded
BpmIsRoundedMean ==
    Len(beatIntervals) >= 2 =>
        2 * Abs(bpm * SeqSum(beatIntervals) - 60000 * Len(beatIntervals))
            <= SeqSum(beatIntervals)

\* the time between the source's latest beat and the one before it, ms
LatestGap == beatLog[Len(beatLog)] - beatLog[Len(beatLog) - 1]

\* the latest beat left the ring and the estimate as it found them
LatestBeatIgnored ==
    beatIntervals = tempoBefore.ring /\ bpm = tempoBefore.bpm

\* C17 (as stated): the ring holds only gaps shorter than 2.0 s, at most
\* the 8 most recent of them; with at least 2 gaps the BPM estimate is
\* round(60 / mean(ring)); a beat 2.0 s or more after the previous one
\* leaves the ring and the estimate unchanged.
C17_RingOfShortGaps ==
    /\ \A i \in DOMAIN beatIntervals : beatIntervals[i] < TEMPO_WINDOW
    /\ Len(beatIntervals) <= 8
    /\ \E K \in {ShortGaps} : beatIntervals = RecentOf(K)
    /\ BpmIsRoundedMean
    /\ (Len(beatLog) >= 2 /\ LatestGap >= TEMPO_WINDOW) => LatestBeatIgnored

\* C17 (amended): the ring holds only gaps of at most 2.0 s, namely the
\* 8 most recent gaps whose difference computed in doubles is below 2.0;
\* with at least 2 gaps the BPM estimate is round(60 / mean(ring)); a beat
\* more than 2.0 s after the previous one leaves the ring and the estimate
\* unchanged.
C17_RingOfGapsBelowWindow ==
    /\ \A i \in DOMAIN beatIntervals : beatIntervals[i] <= TEMPO_WINDOW
    /\ Len(beatIntervals) <= 8
    /\ \E K \in {GapsBelowWindow} : beatIntervals = RecentOf(K)
    /\ BpmIsRoundedMean
    /\ (Len(beatLog) >= 2 /\ LatestGap > TEMPO_WINDOW) => LatestBeatIgnored

\* the latest beat came more than 2.0 s after the one before it and the
\* ring, which holds a gap of exactly 2.0 s, kept its gaps and its estimate
C17_Witness ==
    /\ Len(beatIntervals) >= 2
    /\ \E i \in DOMAIN beatIntervals : beatIntervals[i] = TEMPO_WINDOW
    /\ Len(beatLog) >= 2
    /\ LatestGap > TEMPO_WINDOW
    /\ LatestBeatIgnored
    /\ out.beat.fired
    /\ out.bpm = bpm

(***************************************************************************)
(* LiveAnalyzer.tick: the spacing of beats                                 *)
(***************************************************************************)
\* C18 (as stated): any two ticks that report a beat are more than 180 ms
\* apart.
C18_BeatsMoreThanGapApart == closestBeat > BEAT_GAP

\* C18 (amended): any two ticks that report a beat from one attached
\* source are at least 180 ms apart, whatever the bass of the frames in
\* between, so a bass spike less than 180 ms after a beat gives none.
C18_BeatsAtLeastGapApartPerSource == closestBeatSameSource >= BEAT_GAP

\* a second beat of one source, after a bass spike that came too soon
C18_Witness ==
    /\ beatRefused
    /\ closestBeatSameSource < Far
    /\ Len(beatLog) >= 2
    /\ out.beat.fired

(***************************************************************************)
(* LiveAnalyzer.tick: the absolute floor of the onset and beat thresholds  *)
(***************************************************************************)
\* the raw average of a band in the frame analysed last, thousandths of a
\* byte value
RawAvg(b) == BandAvg(Analysed[prevDataArray].sum[b], Counts[b])

\* C19: a tick whose raw average magnitude in a band is 6 or less of 255
\* reports no onset for that band, and no beat when the band is the bass,
\* whatever the rolling averages are.
C19_NoEventAtSixOrLess ==
    prevDataArray # NullArray =>
        /\ \A b \in OnsetBands : RawAvg(b) <= 6000 => ~out.onsets[b]
        /\ RawAvg("bass") <= 6000 => ~out.beat.fired

\* a near-silent frame analysed while the rolling averages were so low
\* that the bass stands above 1.5 and 1.4 times them
C19_Witness ==
    /\ prevDataArray = QuietData
    /\ out.rawMids > 0
    /\ RawAvg("bass") = 6000
    /\ 2 * RawAvg("bass") > 3 * onsetRolling["bass"]
    /\ 10 * RawAvg("bass") > 14 * rollingBass
    /\ lastBeatTime < 0
    /\ out.onsets = NoOnsets
    /\ ~out.beat.fired

(***************************************************************************)
(* LiveAnalyzer.tick without a frame                                       *)
(***************************************************************************)
\* a step in which tick has no frame to analyse
TicksWithoutFrame ==
    nTicks' = nTicks + 1 /\ (~analyser \/ ctxState # "running")

\* the returned outputs that are smoothed, with their retentions
Decaying == [k \in Bands \cup {"flux", "rolloff"} |-> Retention[k]]
               @@ [k \in {"onsetDensity"} |-> 9920]

\* C20: a tick without a frame returns band, flux, rolloff and onset
\* density outputs that each differ from the previously returned value by
\* at most (1 - retention) times that value.
C20_AbsentFrameDecays ==
    [][TicksWithoutFrame =>
        \A k \in DOMAIN Decaying :
            Abs(out'[k] - out[k]) * SC
                <= (SC - Decaying[k]) * out[k] + SC \div 2]_vars

(***************************************************************************)
(* LiveAnalyzer.tick: the range of the returned frame                      *)
(***************************************************************************)
\* the returned numbers that are documented as normalised
Normalised == {"subBass", "bass", "mids", "highs", "brilliance", "rawMids",
               "centroid", "flux", "rolloff", "zcr", "onsetDensity"}

\* C21: every band energy, the raw mids, centroid, flux, rolloff,
\* noisiness, onset density and beat confidence of a returned frame lie
\* in [0, 1], and the beat confidence is 0 when no beat fired.
C21_FrameInUnitRange ==
    /\ \A k \in Normalised : out[k] >= 0 /\ out[k] <= SC
    /\ out.beat.confidence >= 0 /\ out.beat.confidence <= SC
    /\ ~out.beat.fired => out.beat.confidence = 0

\* a beat whose confidence is held at 1
C21_Witness ==
    /\ out.beat.fired
    /\ out.beat.confidence = SC
    /\ out.rawMids > 0
    /\ out.bass > 0
    /\ out.flux > 0

(***************************************************************************)
(* AudioProfileClassifier.update: the two smoothing speeds                 *)
(***************************************************************************)
\* a step in which update takes the normal path
RollsStats == nUpdates' = nUpdates + 1 /\ HasAudio(lastFrame')

\* a statistic moved toward a sample by the coefficient alpha
Toward(old, sample, alpha) == old + Mul(sample - old, alpha)

\* the statistics after a frame: flux and bass ratio at the fast speed,
\* centroid, onset density and noisiness at the slow speed
RolledAsStated(r, frame, dt) ==
    [centroid     |-> Toward(r.centroid, frame.centroid, AlphaSlow(dt)),
     flux         |-> Toward(r.flux, frame.flux, AlphaFast(dt)),
     onsetDensity |-> Toward(r.onsetDensity, frame.onsetDensity,
                             AlphaSlow(dt)),
     bassRatio    |-> Toward(r.bassRatio, BassRatio(frame), AlphaFast(dt)),
     zcr          |-> Toward(r.zcr, frame.zcr, AlphaSlow(dt))]

\* C22: update rolls flux and the bass/treble ratio with the fast
\* coefficient and centroid, onset density and noisiness with the slow one.
C22_FastFluxAndBassRatio ==
    [][RollsStats =>
        \E dt \in FrameTimes :
            rolling' = RolledAsStated(rolling, lastFrame', dt)]_vars

(***************************************************************************)
(* useBeatSync: the order of callbacks across the three tables             *)
(***************************************************************************)
\* the start time (ms) of the event a callback was made for
StartOfCall(c) == Table(analysis, c[1])[c[2] + 1].start

\* C23: the callbacks of one dispatch, beats, bars and sections together,
\* come in non-decreasing start-time order: a bar that starts before a
\* beat of the same window is fired before that beat.
C23_CallbacksInStartOrder ==
    \A n \in 1..(Len(fired) - 1) :
        StartOfCall(fired[n]) <= StartOfCall(fired[n + 1])

(***************************************************************************)
(* MoodPaletteSystem.modulate: the weight left on the base palette         *)
(***************************************************************************)
\* the largest share of the way to the mood colour that leaves the base
\* colour at least 60% of the weight
MaxMoodShare == (4 * SC) \div 10

WithinMoodShare(i) ==
    LET b == rgbToHsl(palBefore[i])
        m == rgbToHsl(moodAt[i])
        a == rgbToHsl(pal[i])
    IN  /\ SC * HueArc(a[1], b[1])
              <= MaxMoodShare * HueArc(m[1], b[1]) + SC * ColourTol
        /\ SC * Abs(a[2] - b[2])
              <= MaxMoodShare * Abs(m[2] - b[2]) + SC * ColourTol
        /\ SC * Abs(a[3] - b[3])
              <= MaxMoodShare * Abs(m[3] - b[3]) + SC * ColourTol

\* C24: modulate leaves at least 60% of the weight on the base palette in
\* every channel: hue, saturation and lightness of each of the four colours
\* move by at most 40% of their difference to the mood colour.
C24_BaseKeepsSixtyPercent ==
    nModulate > 0 => \A i \in Slots : WithinMoodShare(i)

(***************************************************************************)
(* AudioProfileClassifier: handed-out values                               *)
(***************************************************************************)
\* C25: a VisualParams value handed out by update or getParams is a
\* snapshot: a later update call does not change it, whether the call that
\* handed it out took the normal path or the no-audio path.
C25_HandedOutIsSnapshot == earlier.some => earlier.now = earlier.was

(***************************************************************************)
(* loadPreview in flight while startLiveCapture runs (FlightSpec)          *)
(***************************************************************************)
\* C26: under every interleaving of loadPreview and startLiveCapture, once
\* the capture stream is attached the mode is 'live' and stays so, no
\* preview buffer source is started or left playing, and at most one source
\* feeds the analyser at any time.
C26_AttachedCaptureStaysLive ==
    /\ streamSource => (mode = "live" /\ ~bufferSource)
    /\ Cardinality(feeds) <= 1

(***************************************************************************)
(* useBeatSync: the first window after the anchor was cleared              *)
(***************************************************************************)
\* a playing dispatch that finds no anchor
FirstPlayingCall ==
    pc = "dispatch" /\ ShouldRun(analysis, isPlaying) /\ prevPositionRef = NoPos

\* C27 (as claimed): the first playing call after the anchor was cleared
\* fires the events that start within the 200 ms before the current position
\* (an event at 0 when the position is 0 included) and fires no event that
\* starts at or before cur - 0.2 s.
C27_FirstWindowIsExactly200ms ==
    [][FirstPlayingCall =>
          \A k \in Kinds : \A e \in Starts(k) :
              /\ (e[2] > position - 200 /\ e[2] <= position)
                    => e[1] \in FiredIdx(k)'
              /\ (e[2] <= position - 200 \/ e[2] > position)
                    => e[1] \notin FiredIdx(k)']_vars

\* C27 (amended): the first playing call after the anchor was cleared fires
\* the events that start less than 200 ms before the current position or at
\* it (an event at 0 when the position is 0 included) and fires no event that
\* starts more than 200 ms before it or after it.  (An event exactly 200 ms
\* before the position fires or not as cur - 0.2 rounds.)
C27_FirstWindowIs200ms ==
    [][FirstPlayingCall =>
          \A k \in Kinds : \A e \in Starts(k) :
              /\ (e[2] > position - 200 /\ e[2] <= position)
                    => e[1] \in FiredIdx(k)'
              /\ (e[2] < position - 200 \/ e[2] > position)
                    => e[1] \notin FiredIdx(k)']_vars

\* the first call for new tables, at position 0, fired the section at 0
C27_Witness ==
    /\ pc = "idle" /\ replaced /\ lastPath = "fire" /\ isPlaying
    /\ position = 0
    /\ FiredIdx("section") = {0}
    /\ Table(analysis, "section")[1].start = 0

(***************************************************************************)
(* LiveAnalyzer.tick on frames that stop changing (HoldSpec)               *)
(***************************************************************************)
\* the band averages of the frame that is being repeated, thousandths
HeldLevel(b) == BandAvg(Analysed[prevDataArray].sum[b], Counts[b])

\* the latest tick reported no onset and no beat
Quiet == ~out.beat.fired /\ \A b \in OnsetBands : ~out.onsets[b]

\* the thresholds the next tick compares with lie above the repeated level
ThresholdsAbove ==
    prevDataArray # NullArray =>
        /\ \A b \in OnsetBands :
              HeldLevel(b) < OnsetThreshold(OnsetRolled(onsetRolling[b],
                                                       HeldLevel(b)))
        /\ HeldLevel("bass")
              < BeatThreshold(EmaMilli(rollingBass, HeldLevel("bass"), 940))

\* C28: when from some tick on every frame has the same magnitudes and the
\* clock advances, then after finitely many ticks no per-band onset and no
\* beat fires any more: the adaptive thresholds settle strictly above the
\* constant level.
C28_ConstantFramesGoQuiet == <>[](Quiet /\ ThresholdsAbove)

\* the repeated loud frame set off a beat and a bass onset more than once
\* before the thresholds rose above it
C28_Witness ==
    /\ steady = HoldFrames
    /\ prevDataArray = KickData
    /\ Len(beatLog) >= 2
    /\ Quiet /\ ThresholdsAbove

Channels == 1..3

InUnitRange(colors) ==
    \A i \in Slots : \A c \in Channels : colors[i][c] >= 0 /\ colors[i][c] <= SC

\* min(1, dt x rate) for the two rates, 1/1.5 s and 1/8 s
Fractions(dt) == {Min2(SC, RDiv(dt * 20, 3)), Min2(SC, RDiv(dt * 5, 4))}

\* x lies between a and b
Between(x, a, b) == (a <= x /\ x <= b) \/ (b <= x /\ x <= a)

\* the step of one channel is the fraction f of its distance to the target,
\* up to the rounding of the product
MovedBy(from, to, goal, f) ==
    2 * Abs(SC * (to - from) - f * (goal - from)) <= SC

\* C30: after any update calls with frame fields in [0, 1] and any dt >= 0
\* every RGB channel of the four target colours and of the four current
\* colours lies in [0, 1], and each update moves every current channel
\* toward its target by the fraction min(1, dt x rate), without overshooting
\* the target.
C30_ColoursInRangeNoOvershoot ==
    /\ [](InUnitRange(moodTarget) /\ InUnitRange(current))
    /\ [][nMood' = nMood + 1 =>
            \E dt \in AnyDts : \E f \in Fractions(dt) :
                \A i \in Slots : \A c \in Channels :
                    /\ MovedBy(current[i][c], current'[i][c],
                               moodTarget'[i][c], f)
                    /\ Between(current'[i][c], current[i][c],
                               moodTarget'[i][c])]_vars

\* a long frame time carried the current colours all the way to a target
\* whose accent colour was shifted and whose channels touch both ends of
\* the range
C30_Witness ==
    /\ nMood >= 2
    /\ current = moodTarget
    /\ current # moodQuad(5000, 5000)
    /\ \E i \in Slots : \E c \in Channels : moodTarget[i][c] = SC
    /\ \E i \in Slots : \E c \in Channels : moodTarget[i][c] = 0

====
